---- MODULE Spec2Model ----
(***************************************************************************)
(* Model of the authenticated codec of src/lib/encryption.ts               *)
(* (encrypt / decrypt over AES-256-GCM with a scrypt-derived key).         *)
(*                                                                         *)
(* Representation.                                                         *)
(*   - A JavaScript string is a sequence of UTF-16 code units (0..65535). *)
(*   - A Buffer is a sequence of bytes (0..255).                           *)
(*   - Conversions (UTF-8, base64, split, join) are computed as Node       *)
(*     computes them.                                                      *)
(*   - The primitives of Node's crypto module (scrypt, the AES-CTR         *)
(*     keystream, GHASH) are replaced by small arithmetic stand-ins with   *)
(*     the same shape: the key is a function of (password, salt), the      *)
(*     keystream a function of (key, iv, position), the tag a polynomial   *)
(*     hash of the ciphertext under a key-dependent point, masked by a    *)
(*     (key, iv)-dependent block.  They are idealised as collision-free    *)
(*     on the bounded domain, and the random source as never repeating.    *)
(***************************************************************************)
EXTENDS Integers, Sequences, FiniteSets, TLC

\* ------------------------------------------------------------------------
\* Program constants (encryption.ts:3-6)
\* ------------------------------------------------------------------------
ALGORITHM == "aes-256-gcm"

IV_LENGTH == 16

TAG_LENGTH == 16

KEY_LENGTH == 32

\* ------------------------------------------------------------------------
\* Bounds of the model
\* ------------------------------------------------------------------------
\* longest plaintext given to encrypt, in characters of the alphabet
MaxTextLen == 1

\* number of encrypt calls in one behaviour of the multi-call specification
MaxCalls == 2

\* number of distinct values the random source can hand out
NumNonces == 2

\* longest text given to TypingAnimation
MaxTypedLen == 2

\* number of times the text prop changes while TypingAnimation is mounted
MaxChanges == 1

\* longest list of records given to ClientRecordsViewer
MaxRecords == 3

\* ------------------------------------------------------------------------
\* Generic helpers on sequences and bytes
\* ------------------------------------------------------------------------
Prefix(s, n) == SubSeq(s, 1, n)

RECURSIVE BitXor(_, _, _)
BitXor(a, b, n) ==
  IF n = 0 THEN 0
  ELSE (((a % 2) + (b % 2)) % 2) + 2 * BitXor(a \div 2, b \div 2, n - 1)

Xor(a, b) == BitXor(a, b, 8)

\* the concatenation of chunks[lo..hi], computed over halves
RECURSIVE FlattenRange(_, _, _)
FlattenRange(chunks, lo, hi) ==
  IF lo > hi THEN <<>>
  ELSE IF lo = hi THEN chunks[lo]
  ELSE LET mid == (lo + hi) \div 2
       IN FlattenRange(chunks, lo, mid) \o FlattenRange(chunks, mid + 1, hi)

\* the concatenation of a sequence of sequences
Flatten(chunks) == FlattenRange(chunks, 1, Len(chunks))

\* code units of the ASCII characters the model names
Colon == 58

Equals == 61

Bang == 33

\* ------------------------------------------------------------------------
\* UTF-8: cipher.update(text, 'utf8') and Buffer.toString('utf8')
\* ------------------------------------------------------------------------
IsHighSurrogate(u) == u >= 55296 /\ u <= 56319

IsLowSurrogate(u) == u >= 56320 /\ u <= 57343

ReplacementUnit == 65533

Utf8OfCodePoint(c) ==
  IF c < 128 THEN <<c>>
  ELSE IF c < 2048 THEN <<192 + (c \div 64), 128 + (c % 64)>>
  ELSE IF c < 65536
    THEN <<224 + (c \div 4096), 128 + ((c \div 64) % 64), 128 + (c % 64)>>
  ELSE <<240 + (c \div 262144), 128 + ((c \div 4096) % 64),
         128 + ((c \div 64) % 64), 128 + (c % 64)>>

\* the bytes written for the code unit at position i: a surrogate pair is
\* written at its first unit, an unpaired surrogate as U+FFFD
Utf8At(s, i) ==
  IF IsHighSurrogate(s[i]) /\ i < Len(s) /\ IsLowSurrogate(s[i + 1])
    THEN Utf8OfCodePoint(65536 + (s[i] - 55296) * 1024 + (s[i + 1] - 56320))
  ELSE IF IsLowSurrogate(s[i]) /\ i > 1 /\ IsHighSurrogate(s[i - 1]) THEN <<>>
  ELSE IF IsHighSurrogate(s[i]) \/ IsLowSurrogate(s[i])
    THEN Utf8OfCodePoint(ReplacementUnit)
  ELSE Utf8OfCodePoint(s[i])

\* Buffer.from(text, 'utf8'): an unpaired surrogate is written as U+FFFD
Utf8Encode(s) == Flatten([i \in 1..Len(s) |-> Utf8At(s, i)])

IsCont(b, i) == i <= Len(b) /\ b[i] >= 128 /\ b[i] <= 191

UnitsOfCodePoint(c) ==
  IF c < 65536 THEN <<c>>
  ELSE <<55296 + ((c - 65536) \div 1024), 56320 + ((c - 65536) % 1024)>>

\* the length of the well-formed sequence that begins at position i, 1 when
\* none does
Utf8SeqLen(b, i) ==
  LET b0 == b[i]
      c3 == (b0 - 224) * 4096 + (b[i + 1] - 128) * 64 + (b[i + 2] - 128)
      c4 == (b0 - 240) * 262144 + (b[i + 1] - 128) * 4096
            + (b[i + 2] - 128) * 64 + (b[i + 3] - 128)
  IN IF b0 >= 194 /\ b0 <= 223 /\ IsCont(b, i + 1) THEN 2
     ELSE IF b0 >= 224 /\ b0 <= 239 /\ IsCont(b, i + 1) /\ IsCont(b, i + 2)
             /\ c3 >= 2048 /\ ~(c3 >= 55296 /\ c3 <= 57343) THEN 3
     ELSE IF b0 >= 240 /\ b0 <= 244 /\ IsCont(b, i + 1) /\ IsCont(b, i + 2)
             /\ IsCont(b, i + 3) /\ c4 >= 65536 /\ c4 <= 1114111 THEN 4
     ELSE 1

\* the byte at position i is a continuation byte of a well-formed sequence
\* that begins before it
Utf8Consumed(b, i) ==
  /\ IsCont(b, i)
  /\ \E j \in 1..3 : i - j >= 1 /\ Utf8SeqLen(b, i - j) > j

\* the code units decoded at position i: those of the sequence that begins
\* there, U+FFFD for a byte that begins none
Utf8DecodeAt(b, i) ==
  LET b0 == b[i]
      n == Utf8SeqLen(b, i)
  IN IF Utf8Consumed(b, i) THEN <<>>
     ELSE IF b0 < 128 THEN <<b0>>
     ELSE IF n = 2 THEN <<(b0 - 192) * 64 + (b[i + 1] - 128)>>
     ELSE IF n = 3
       THEN <<(b0 - 224) * 4096 + (b[i + 1] - 128) * 64 + (b[i + 2] - 128)>>
     ELSE IF n = 4
       THEN UnitsOfCodePoint((b0 - 240) * 262144 + (b[i + 1] - 128) * 4096
                             + (b[i + 2] - 128) * 64 + (b[i + 3] - 128))
     ELSE <<ReplacementUnit>>

\* a variant of the decoding: toString('latin1'), one code unit per byte
Latin1Decode(b) == b

\* Buffer.toString('utf8'): an ill-formed byte decodes to U+FFFD
Utf8Decode(b) == Flatten([i \in 1..Len(b) |-> Utf8DecodeAt(b, i)])

\* ------------------------------------------------------------------------
\* base64: Buffer.toString('base64') and Buffer.from(s, 'base64')
\* ------------------------------------------------------------------------
\* the character of a 6-bit value in the standard alphabet
B64Char(v) ==
  IF v < 26 THEN 65 + v
  ELSE IF v < 52 THEN 97 + (v - 26)
  ELSE IF v < 62 THEN 48 + (v - 52)
  ELSE IF v = 62 THEN 43
  ELSE 47

\* Node's unbase64 table: the standard and the URL-safe alphabet are both
\* accepted; any other character gives 64 ("not a digit")
Unbase64(c) ==
  IF c >= 65 /\ c <= 90 THEN c - 65
  ELSE IF c >= 97 /\ c <= 122 THEN c - 97 + 26
  ELSE IF c >= 48 /\ c <= 57 THEN c - 48 + 52
  ELSE IF c = 43 \/ c = 45 THEN 62
  ELSE IF c = 47 \/ c = 95 THEN 63
  ELSE 64

\* buf.toString('base64'): standard alphabet, '=' padding; character c of the
\* output belongs to the group of three bytes number (c - 1) \div 4
ToBase64(b) ==
  LET n == Len(b)
      at(k) == IF k <= n THEN b[k] ELSE 0
      char(c) ==
        LET g == 3 * ((c - 1) \div 4)
            r == (c - 1) % 4
        IN IF r = 0 THEN B64Char(at(g + 1) \div 4)
           ELSE IF r = 1
             THEN B64Char(((at(g + 1) % 4) * 16) + (at(g + 2) \div 16))
           ELSE IF r = 2
             THEN IF g + 2 > n THEN Equals
                  ELSE B64Char(((at(g + 2) % 16) * 4) + (at(g + 3) \div 64))
           ELSE IF g + 3 > n THEN Equals ELSE B64Char(at(g + 3) % 64)
  IN [c \in 1..(4 * ((n + 2) \div 3)) |-> char(c)]

\* the 6-bit digits the decoder consumes: the first '=' ends the input,
\* characters outside the alphabets are skipped
B64Digits(s) ==
  LET stops == {i \in 1..Len(s) : s[i] = Equals}
      end == IF stops = {} THEN Len(s)
             ELSE (CHOOSE i \in stops : \A j \in stops : i <= j) - 1
      kept == SelectSeq(SubSeq(s, 1, end), LAMBDA c : Unbase64(c) < 64)
  IN [i \in 1..Len(kept) |-> Unbase64(kept[i])]

\* four digits give three bytes; a trailing group of two digits gives one
\* byte, of three digits two bytes, a single trailing digit none
B64Bytes(d) ==
  LET rest == Len(d) % 4
      n == (3 * (Len(d) \div 4)) + (IF rest >= 2 THEN rest - 1 ELSE 0)
      byte(k) ==
        LET g == 4 * ((k - 1) \div 3)
            r == (k - 1) % 3
        IN IF r = 0 THEN (d[g + 1] * 4) + (d[g + 2] \div 16)
           ELSE IF r = 1 THEN ((d[g + 2] % 16) * 16) + (d[g + 3] \div 4)
           ELSE ((d[g + 3] % 4) * 64) + d[g + 4]
  IN [k \in 1..n |-> byte(k)]

\* Buffer.from(s, 'base64'): never throws
FromBase64(s) == B64Bytes(B64Digits(s))

\* syntactically valid standard base64 (RFC 4648 section 4): characters of the
\* standard alphabet only, length a multiple of 4, at most two '=' and only
\* as the last characters
IsStdChar(c) ==
  \/ c >= 65 /\ c <= 90
  \/ c >= 97 /\ c <= 122
  \/ c >= 48 /\ c <= 57
  \/ c = 43
  \/ c = 47

IsStdBase64(s) ==
  /\ Len(s) % 4 = 0
  /\ \A i \in 1..Len(s) :
        \/ IsStdChar(s[i])
        \/ /\ s[i] = Equals
           /\ i >= Len(s) - 1
           /\ \A j \in (i + 1)..Len(s) : s[j] = Equals

\* ------------------------------------------------------------------------
\* String.prototype.split(':') and the template literal of encrypt
\* ------------------------------------------------------------------------
\* s.split(sep): the pieces of s between consecutive separators
split(s, sep) ==
  LET at == {i \in 1..Len(s) : s[i] = sep}
      \* position of the k-th separator; 0 before the first piece and
      \* Len(s) + 1 after the last
      pos(k) == IF k = 0 THEN 0
                ELSE IF k > Cardinality(at) THEN Len(s) + 1
                ELSE CHOOSE i \in at : Cardinality({j \in at : j < i}) = k - 1
  IN [k \in 1..(Cardinality(at) + 1) |->
        SubSeq(s, pos(k - 1) + 1, pos(k) - 1)]

Join3(a, b, c) == a \o <<Colon>> \o b \o <<Colon>> \o c

\* ------------------------------------------------------------------------
\* Stand-ins for the primitives of Node's crypto module
\* ------------------------------------------------------------------------
\* modulus of the arithmetic stand-ins (a prime above every byte value)
HashPrime == 32749

\* a hash of data[lo..hi] at the point x, computed over halves
RECURSIVE PolyRange(_, _, _, _)
PolyRange(data, x, lo, hi) ==
  IF lo > hi THEN 1
  ELSE IF lo = hi THEN (data[lo] + (lo * x) + 1) % HashPrime
  ELSE LET mid == (lo + hi) \div 2
       IN ((PolyRange(data, x, lo, mid) * ((x + hi) % 181))
           + PolyRange(data, x, mid + 1, hi) + 1) % HashPrime

PolyEval(data, x, seed) ==
  ((PolyRange(data, x, 1, Len(data)) * 179) + seed) % HashPrime

Mix(x) == (((x % HashPrime) * ((x + 7919) % HashPrime)) + 104729) % HashPrime

\* the salt literal 'salt' of scryptSync(secretKey, 'salt', KEY_LENGTH)
Salt == <<115, 97, 108, 116>>

\* a variant of the derivation: the key is derived from the salt alone
scryptSyncOfSalt(password, salt, keylen) ==
  LET seed == PolyEval(<<255>> \o Utf8Encode(salt), 131, 1)
  IN [i \in 1..keylen |-> Mix(seed + (i * 977)) % 256]

\* crypto.scryptSync(password, salt, keylen): keylen bytes, a function of
\* (password, salt) only
scryptSync(password, salt, keylen) ==
  LET seed == PolyEval(Utf8Encode(password) \o <<255>> \o Utf8Encode(salt),
                       131, Len(password) + 1)
  IN [i \in 1..keylen |-> Mix(seed + (i * 977)) % 256]

\* the pre-counter block of GCM: a function of key and iv
J0(key, iv) == PolyEval(key \o <<Len(iv)>> \o iv, 257, 1)

\* the hash subkey of GCM: a function of the key
HashSubkey(key) == 2 + (PolyEval(key, 263, 1) % 4093)

\* cipher.update / decipher.update in counter mode: byte i of the data is
\* xored with byte i of the keystream; the length is unchanged
CtrXor(key, iv, data) ==
  LET j == J0(key, iv)
  IN [i \in 1..Len(data) |-> Xor(data[i], Mix(j + (i * 31)) % 256)]

\* cipher.getAuthTag(): the 16-byte tag over the ciphertext
GcmTag(key, iv, ciphertext) ==
  LET j == J0(key, iv)
      h == HashSubkey(key)
  IN [t \in 1..16 |->
        (PolyEval(ciphertext, h + t, Len(ciphertext) + 1) + Mix(j + (t * 1009)))
          % 256]

\* OpenSSL's tag check in decipher.final(): the tag set by setAuthTag is
\* compared with the leading bytes of the computed tag, over the length of
\* the tag that was set
TagVerifies(key, iv, ciphertext, tag) ==
  /\ Len(tag) <= 16
  /\ tag = Prefix(GcmTag(key, iv, ciphertext), Len(tag))

\* setAuthTag without an authTagLength option accepts these lengths
IsValidGCMTagLength(n) == n = 4 \/ n = 8 \/ (n >= 12 /\ n <= 16)

\* ------------------------------------------------------------------------
\* Outcomes of a call: a returned string or a thrown Error
\* ------------------------------------------------------------------------
NoValue == <<-1>>

MsgInvalidFormat == "Invalid encrypted format. Expected iv:tag:data"

MsgInvalidIV == "Invalid initialization vector"

MsgInvalidTagLength == "Invalid authentication tag length"

MsgUnableToAuthenticate == "Unsupported state or unable to authenticate data"

MsgInvalidKeyLength == "Invalid key length"

\* the constructor of the error object that carries a message: decrypt throws
\* new Error(...) itself, decipher.final() throws an Error, createDecipheriv
\* and setAuthTag throw a TypeError
ErrorName(msg) ==
  IF msg = MsgInvalidIV \/ msg = MsgInvalidTagLength THEN "TypeError"
  ELSE "Error"

Return(v, ev) == [ok |-> TRUE, value |-> v, error |-> "", events |-> ev]

Throw(msg, ev) ==
  [ok |-> FALSE, value |-> NoValue, error |-> msg, events |-> Append(ev, "throw")]

\* ------------------------------------------------------------------------
\* Variants of encrypt
\* ------------------------------------------------------------------------
\* the iv is a zero-filled buffer (Buffer.alloc) instead of the random value
encryptZeroIv(text, secretKey, iv) ==
  LET key == scryptSync(secretKey, Salt, KEY_LENGTH)
      zero == [i \in 1..IV_LENGTH |-> 0]
      encrypted == CtrXor(key, zero, Utf8Encode(text))
      tag == GcmTag(key, zero, encrypted)
  IN Join3(ToBase64(zero), ToBase64(tag), ToBase64(encrypted))

\* the iv is taken from the key instead of the random value
encryptKeyIv(text, secretKey, iv) ==
  LET key == scryptSync(secretKey, Salt, KEY_LENGTH)
      kiv == Prefix(key, IV_LENGTH)
      encrypted == CtrXor(key, kiv, Utf8Encode(text))
      tag == GcmTag(key, kiv, encrypted)
  IN Join3(ToBase64(kiv), ToBase64(tag), ToBase64(encrypted))

\* the fields are joined as tag:iv:data
encryptTagFirst(text, secretKey, iv) ==
  LET key == scryptSync(secretKey, Salt, KEY_LENGTH)
      encrypted == CtrXor(key, iv, Utf8Encode(text))
      tag == GcmTag(key, iv, encrypted)
  IN Join3(ToBase64(tag), ToBase64(iv), ToBase64(encrypted))

\* the cipher is created with { authTagLength: 12 }: getAuthTag gives 12 bytes
encryptTag12(text, secretKey, iv) ==
  LET key == scryptSync(secretKey, Salt, KEY_LENGTH)
      encrypted == CtrXor(key, iv, Utf8Encode(text))
      tag == Prefix(GcmTag(key, iv, encrypted), 12)
  IN Join3(ToBase64(iv), ToBase64(tag), ToBase64(encrypted))

\* the data is padded to whole 16-byte blocks before it is encrypted, as a
\* block mode with PKCS#7 padding does
encryptPadded(text, secretKey, iv) ==
  LET key == scryptSync(secretKey, Salt, KEY_LENGTH)
      data == Utf8Encode(text)
      pad == 16 - (Len(data) % 16)
      encrypted == CtrXor(key, iv, data \o [i \in 1..pad |-> pad])
      tag == GcmTag(key, iv, encrypted)
  IN Join3(ToBase64(iv), ToBase64(tag), ToBase64(encrypted))

\* a variant of encrypt: the third field is the text itself, not encoded
encryptClearText(text, secretKey, iv) ==
  LET key == scryptSync(secretKey, Salt, KEY_LENGTH)
      encrypted == CtrXor(key, iv, Utf8Encode(text))
      tag == GcmTag(key, iv, encrypted)
  IN Join3(ToBase64(iv), ToBase64(tag), text)

\* ------------------------------------------------------------------------
\* encrypt (encryption.ts:14-27); iv is the value randomBytes returned
\* ------------------------------------------------------------------------
encrypt(text, secretKey, iv) ==
  LET key == scryptSync(secretKey, Salt, KEY_LENGTH)
      encrypted == CtrXor(key, iv, Utf8Encode(text))
      tag == GcmTag(key, iv, encrypted)
  IN Join3(ToBase64(iv), ToBase64(tag), ToBase64(encrypted))

\* a variant of the validation: an empty text is refused,
\* if (!text) throw new Error(...)
encryptThrowsOnEmptyText(text, secretKey, iv) ==
  LET key == scryptSync(secretKey, Salt, KEY_LENGTH)
  IN IF text = <<>> THEN MsgInvalidFormat
     ELSE IF Len(key) # 32 THEN MsgInvalidKeyLength
     ELSE IF Len(iv) = 0 THEN MsgInvalidIV
     ELSE ""

\* the message of the error encrypt throws, "" when it returns: encrypt has
\* no throw of its own; createCipheriv refuses a key that is not 32 bytes for
\* aes-256-gcm and an empty iv
encryptThrows(text, secretKey, iv) ==
  LET key == scryptSync(secretKey, Salt, KEY_LENGTH)
  IN IF Len(key) # 32 THEN MsgInvalidKeyLength
     ELSE IF Len(iv) = 0 THEN MsgInvalidIV
     ELSE ""

\* a variant of decrypt: the salt literal is written 'Salt'
decryptOtherSalt(encryptedText, secretKey) ==
  LET key == scryptSync(secretKey, <<83, 97, 108, 116>>, KEY_LENGTH)
      parts == split(encryptedText, Colon)
      iv == FromBase64(parts[1])
      tag == FromBase64(parts[2])
      encrypted == FromBase64(parts[3])
      decrypted == CtrXor(key, iv, encrypted)
      e1 == <<"scryptSync", "split">>
      e3 == e1 \o <<"Buffer.from", "Buffer.from", "Buffer.from",
                    "createDecipheriv">>
      e4 == Append(e3, "setAuthTag")
      e6 == e4 \o <<"update", "final">>
  IN IF Len(parts) # 3 THEN Throw(MsgInvalidFormat, e1)
     ELSE IF Len(iv) = 0 THEN Throw(MsgInvalidIV, e3)
     ELSE IF ~IsValidGCMTagLength(Len(tag)) THEN Throw(MsgInvalidTagLength, e4)
     ELSE IF ~TagVerifies(key, iv, encrypted, tag)
       THEN Throw(MsgUnableToAuthenticate, e6)
     ELSE Return(Utf8Decode(decrypted), Append(e6, "toString"))

\* ------------------------------------------------------------------------
\* Variants of decrypt
\* ------------------------------------------------------------------------
\* the error of decipher.final() is caught and ignored
decryptIgnoreFinalError(encryptedText, secretKey) ==
  LET key == scryptSync(secretKey, Salt, KEY_LENGTH)
      parts == split(encryptedText, Colon)
      iv == FromBase64(parts[1])
      tag == FromBase64(parts[2])
      encrypted == FromBase64(parts[3])
      decrypted == CtrXor(key, iv, encrypted)
      e1 == <<"scryptSync", "split">>
      e3 == e1 \o <<"Buffer.from", "Buffer.from", "Buffer.from",
                    "createDecipheriv">>
      e4 == Append(e3, "setAuthTag")
      e6 == e4 \o <<"update", "final">>
  IN IF Len(parts) # 3 THEN Throw(MsgInvalidFormat, e1)
     ELSE IF Len(iv) = 0 THEN Throw(MsgInvalidIV, e3)
     ELSE IF ~IsValidGCMTagLength(Len(tag)) THEN Throw(MsgInvalidTagLength, e4)
     ELSE Return(Utf8Decode(decrypted), Append(e6, "toString"))

\* decipher.final() is not called: the output of update is returned
decryptNoFinal(encryptedText, secretKey) ==
  LET key == scryptSync(secretKey, Salt, KEY_LENGTH)
      parts == split(encryptedText, Colon)
      iv == FromBase64(parts[1])
      tag == FromBase64(parts[2])
      encrypted == FromBase64(parts[3])
      decrypted == CtrXor(key, iv, encrypted)
      e1 == <<"scryptSync", "split">>
      e3 == e1 \o <<"Buffer.from", "Buffer.from", "Buffer.from",
                    "createDecipheriv">>
      e4 == Append(e3, "setAuthTag")
      e5 == Append(e4, "update")
  IN IF Len(parts) # 3 THEN Throw(MsgInvalidFormat, e1)
     ELSE IF Len(iv) = 0 THEN Throw(MsgInvalidIV, e3)
     ELSE IF ~IsValidGCMTagLength(Len(tag)) THEN Throw(MsgInvalidTagLength, e4)
     ELSE Return(Utf8Decode(decrypted), Append(e5, "toString"))

\* the part count is checked with parts.length < 3
decryptAtLeastThree(encryptedText, secretKey) ==
  LET key == scryptSync(secretKey, Salt, KEY_LENGTH)
      parts == split(encryptedText, Colon)
      iv == FromBase64(parts[1])
      tag == FromBase64(parts[2])
      encrypted == FromBase64(parts[3])
      decrypted == CtrXor(key, iv, encrypted)
      e1 == <<"scryptSync", "split">>
      e3 == e1 \o <<"Buffer.from", "Buffer.from", "Buffer.from",
                    "createDecipheriv">>
      e4 == Append(e3, "setAuthTag")
      e6 == e4 \o <<"update", "final">>
  IN IF Len(parts) < 3 THEN Throw(MsgInvalidFormat, e1)
     ELSE IF Len(iv) = 0 THEN Throw(MsgInvalidIV, e3)
     ELSE IF ~IsValidGCMTagLength(Len(tag)) THEN Throw(MsgInvalidTagLength, e4)
     ELSE IF ~TagVerifies(key, iv, encrypted, tag)
       THEN Throw(MsgUnableToAuthenticate, e6)
     ELSE Return(Utf8Decode(decrypted), Append(e6, "toString"))

\* every failure is caught and thrown again under one message
decryptGenericError(encryptedText, secretKey) ==
  LET key == scryptSync(secretKey, Salt, KEY_LENGTH)
      parts == split(encryptedText, Colon)
      iv == FromBase64(parts[1])
      tag == FromBase64(parts[2])
      encrypted == FromBase64(parts[3])
      decrypted == CtrXor(key, iv, encrypted)
      e1 == <<"scryptSync", "split">>
      e3 == e1 \o <<"Buffer.from", "Buffer.from", "Buffer.from",
                    "createDecipheriv">>
      e4 == Append(e3, "setAuthTag")
      e6 == e4 \o <<"update", "final">>
  IN IF Len(parts) # 3 THEN Throw(MsgUnableToAuthenticate, e1)
     ELSE IF Len(iv) = 0 THEN Throw(MsgUnableToAuthenticate, e3)
     ELSE IF ~IsValidGCMTagLength(Len(tag))
       THEN Throw(MsgUnableToAuthenticate, e4)
     ELSE IF ~TagVerifies(key, iv, encrypted, tag)
       THEN Throw(MsgUnableToAuthenticate, e6)
     ELSE Return(Utf8Decode(decrypted), Append(e6, "toString"))

\* an empty field is refused with the format error:
\* if (!ivBase64 || !tagBase64 || !encryptedBase64) throw ...
decryptRejectEmptyField(encryptedText, secretKey) ==
  LET key == scryptSync(secretKey, Salt, KEY_LENGTH)
      parts == split(encryptedText, Colon)
      iv == FromBase64(parts[1])
      tag == FromBase64(parts[2])
      encrypted == FromBase64(parts[3])
      decrypted == CtrXor(key, iv, encrypted)
      e1 == <<"scryptSync", "split">>
      e3 == e1 \o <<"Buffer.from", "Buffer.from", "Buffer.from",
                    "createDecipheriv">>
      e4 == Append(e3, "setAuthTag")
      e6 == e4 \o <<"update", "final">>
  IN IF Len(parts) # 3 THEN Throw(MsgInvalidFormat, e1)
     ELSE IF parts[1] = <<>> \/ parts[2] = <<>> \/ parts[3] = <<>>
       THEN Throw(MsgInvalidFormat, e1)
     ELSE IF Len(iv) = 0 THEN Throw(MsgInvalidIV, e3)
     ELSE IF ~IsValidGCMTagLength(Len(tag)) THEN Throw(MsgInvalidTagLength, e4)
     ELSE IF ~TagVerifies(key, iv, encrypted, tag)
       THEN Throw(MsgUnableToAuthenticate, e6)
     ELSE Return(Utf8Decode(decrypted), Append(e6, "toString"))

\* a variant of decrypt: the failure of decipher.final() is caught and
\* reported as the format error
decryptFinalAsFormatError(encryptedText, secretKey) ==
  LET key == scryptSync(secretKey, Salt, KEY_LENGTH)
      parts == split(encryptedText, Colon)
      iv == FromBase64(parts[1])
      tag == FromBase64(parts[2])
      encrypted == FromBase64(parts[3])
      decrypted == CtrXor(key, iv, encrypted)
      e1 == <<"scryptSync", "split">>
      e3 == e1 \o <<"Buffer.from", "Buffer.from", "Buffer.from",
                    "createDecipheriv">>
      e4 == Append(e3, "setAuthTag")
      e6 == e4 \o <<"update", "final">>
  IN IF Len(parts) # 3 THEN Throw(MsgInvalidFormat, e1)
     ELSE IF Len(iv) = 0 THEN Throw(MsgInvalidIV, e3)
     ELSE IF ~IsValidGCMTagLength(Len(tag)) THEN Throw(MsgInvalidTagLength, e4)
     ELSE IF ~TagVerifies(key, iv, encrypted, tag)
       THEN Throw(MsgInvalidFormat, e6)
     ELSE Return(Utf8Decode(decrypted), Append(e6, "toString"))

\* ------------------------------------------------------------------------
\* decrypt (encryption.ts:35-56); events lists the calls made, in order
\* ------------------------------------------------------------------------
decrypt(encryptedText, secretKey) ==
  LET key == scryptSync(secretKey, Salt, KEY_LENGTH)
      parts == split(encryptedText, Colon)
      iv == FromBase64(parts[1])
      tag == FromBase64(parts[2])
      encrypted == FromBase64(parts[3])
      decrypted == CtrXor(key, iv, encrypted)
      e1 == <<"scryptSync", "split">>
      e2 == e1 \o <<"Buffer.from", "Buffer.from", "Buffer.from">>
      e3 == Append(e2, "createDecipheriv")
      e4 == Append(e3, "setAuthTag")
      e5 == Append(e4, "update")
      e6 == Append(e5, "final")
  IN IF Len(parts) # 3 THEN Throw(MsgInvalidFormat, e1)
     ELSE IF Len(iv) = 0 THEN Throw(MsgInvalidIV, e3)
     ELSE IF ~IsValidGCMTagLength(Len(tag)) THEN Throw(MsgInvalidTagLength, e4)
     ELSE IF ~TagVerifies(key, iv, encrypted, tag)
       THEN Throw(MsgUnableToAuthenticate, e6)
     ELSE Return(Utf8Decode(decrypted), Append(e6, "toString"))

\* ------------------------------------------------------------------------
\* Inputs of the model
\* ------------------------------------------------------------------------
\* the characters plaintexts are built from, as UTF-16 code units: ':' (one
\* UTF-8 byte), U+00E9 (two), U+20AC (three), U+1F600 (a surrogate pair, four
\* bytes) and an unpaired high surrogate
Alphabet == {<<58>>, <<233>>, <<8364>>, <<55357, 56832>>, <<55357>>}

RECURSIVE Concat(_)
Concat(ss) == IF ss = <<>> THEN <<>> ELSE Head(ss) \o Concat(Tail(ss))

\* the strings of at most n characters
StringsOver(chars, n) == UNION {{Concat(f) : f \in [1..k -> chars]} : k \in 0..n}

\* the plaintexts of the single-call specification: the short strings, and
\* two with the delimiter in them, ":" before an unpaired surrogate and "a:b:"
Texts ==
  StringsOver(Alphabet, MaxTextLen) \cup {<<58, 55357>>, <<97, 58, 98, 58>>}

\* the plaintexts of the multi-call specification: ":" followed by U+20AC,
\* and an unpaired surrogate
SeqTexts == {<<58, 8364>>, <<55357>>}

\* the passphrases "" and "k"
Passphrases == {<<>>, <<107>>}

\* the values crypto.randomBytes(size) can return
RandomPool(size) ==
  {[i \in 1..size |-> ((n * 89) + (i * (2 * n + 1))) % 256] : n \in 1..NumNonces}

\* a string is well formed when it has no unpaired surrogate
IsWellFormed(s) ==
  \A i \in 1..Len(s) :
    /\ IsHighSurrogate(s[i]) => (i < Len(s) /\ IsLowSurrogate(s[i + 1]))
    /\ IsLowSurrogate(s[i]) => (i > 1 /\ IsHighSurrogate(s[i - 1]))

\* ------------------------------------------------------------------------
\* What a party between encrypt and decrypt can do to an envelope
\* ------------------------------------------------------------------------
\* another character of the standard alphabet at position p
MutateChar(s, p) == [s EXCEPT ![p] = B64Char((Unbase64(s[p]) + 1) % 64)]

DataPositions(s) == {p \in 1..Len(s) : IsStdChar(s[p])}

\* "AAAA" and the 'tampered-data' of the unit test
StrAAAA == <<65, 65, 65, 65>>

StrTamperedData == <<116, 97, 109, 112, 101, 114, 101, 100, 45, 100, 97, 116, 97>>

\* replacements of one field f, given its present content
FieldVariants(f, s) ==
  LET raw == FromBase64(s)
      cuts == {n \in {0, 3, 4, 8, 12, 15} : n < Len(raw)}
      spots == IF f = 3 THEN DataPositions(s)
               ELSE {p \in DataPositions(s) : p = 1 \/ p = Len(s) - 2}
  IN {ToBase64(Prefix(raw, n)) : n \in cuts}
       \cup {MutateChar(s, p) : p \in spots}
       \cup {StrAAAA, StrTamperedData, Append(s, Bang), <<Bang>> \o s,
             SelectSeq(s, LAMBDA c : c # Equals),
             ToBase64(Append(raw, 0))}

WithField(parts, f, s) == [parts EXCEPT ![f] = s]

\* envelopes with three fields, one of them replaced
Tampered(e) ==
  LET parts == split(e, Colon)
  IN {Join3(q[1], q[2], q[3]) :
        q \in UNION {{WithField(parts, f, s) : s \in FieldVariants(f, parts[f])}
                      : f \in 1..3}} \ {e}

\* strings with a number of fields other than three
WrongPartCount(e) ==
  LET parts == split(e, Colon)
  IN {<<>>,
      <<97, 98, 99, 58, 100, 101, 102>>,
      <<110, 111, 116, 45, 97, 45, 118, 97, 108, 105, 100, 45, 101, 110,
        118, 101, 108, 111, 112, 101>>,
      parts[1] \o <<Colon>> \o parts[2],
      e \o <<Colon>> \o StrAAAA,
      e \o <<Colon>>}

\* ------------------------------------------------------------------------
\* JSON: JSON.stringify, JSON.parse (NextResponse.json, response.json())
\* ------------------------------------------------------------------------
\* JavaScript values, as far as JSON knows them
JString(s) == [t |-> "string", v |-> s]

JArray(xs) == [t |-> "array", v |-> xs]

\* an object is the sequence of its members, in insertion order
JObject(members) == [t |-> "object", v |-> members]

JMember(key, value) == [k |-> key, v |-> value]

\* a number is kept as the text that denotes it
JNumber(lexeme) == [t |-> "number", v |-> lexeme]

JTrue == [t |-> "true"]

JFalse == [t |-> "false"]

JNull == [t |-> "null"]

JUndefined == [t |-> "undefined"]

\* the members with the key, in order
MembersNamed(obj, key) == SelectSeq(obj.v, LAMBDA m : m.k = key)

\* value.key for a value that is neither null nor undefined: the member set
\* last under that key, undefined when there is none
Get(value, key) ==
  IF value.t # "object" \/ MembersNamed(value, key) = <<>> THEN JUndefined
  ELSE MembersNamed(value, key)[Len(MembersNamed(value, key))].v

\* the lower-case hexadecimal digit of d
HexDigit(d) == IF d < 10 THEN 48 + d ELSE 87 + d

\* the escape \uXXXX of a code unit
UnicodeEscape(c) ==
  <<92, 117, HexDigit(c \div 4096), HexDigit((c \div 256) % 16),
    HexDigit((c \div 16) % 16), HexDigit(c % 16)>>

\* JSON.stringify of the code unit at position i of a string: the quote, the
\* backslash and the control characters are escaped, and so is a surrogate
\* that has no partner
QuoteAt(s, i) ==
  LET c == s[i]
  IN IF c = 34 THEN <<92, 34>>
     ELSE IF c = 92 THEN <<92, 92>>
     ELSE IF c = 8 THEN <<92, 98>>
     ELSE IF c = 12 THEN <<92, 102>>
     ELSE IF c = 10 THEN <<92, 110>>
     ELSE IF c = 13 THEN <<92, 114>>
     ELSE IF c = 9 THEN <<92, 116>>
     ELSE IF c < 32 THEN UnicodeEscape(c)
     ELSE IF IsHighSurrogate(c) /\ ~(i < Len(s) /\ IsLowSurrogate(s[i + 1]))
       THEN UnicodeEscape(c)
     ELSE IF IsLowSurrogate(c) /\ ~(i > 1 /\ IsHighSurrogate(s[i - 1]))
       THEN UnicodeEscape(c)
     ELSE <<c>>

Quote(s) == <<34>> \o Flatten([i \in 1..Len(s) |-> QuoteAt(s, i)]) \o <<34>>

\* the chunks joined with a separator between them
JoinWith(chunks, sep) ==
  Flatten([i \in 1..Len(chunks) |->
             IF i = 1 THEN chunks[i] ELSE sep \o chunks[i]])

\* JSON.stringify(value) for a value that is not undefined: no white space,
\* members in insertion order, undefined members left out, undefined
\* elements written as null
RECURSIVE JSONstringify(_)
JSONstringify(value) ==
  IF value.t = "string" THEN Quote(value.v)
  ELSE IF value.t = "number" THEN value.v
  ELSE IF value.t = "true" THEN <<116, 114, 117, 101>>
  ELSE IF value.t = "false" THEN <<102, 97, 108, 115, 101>>
  ELSE IF value.t = "array"
    THEN <<91>>
         \o JoinWith([i \in 1..Len(value.v) |->
                        IF value.v[i].t = "undefined" THEN <<110, 117, 108, 108>>
                        ELSE JSONstringify(value.v[i])], <<44>>)
         \o <<93>>
  ELSE IF value.t = "object"
    THEN LET kept == SelectSeq(value.v, LAMBDA m : m.v.t # "undefined")
         IN <<123>>
            \o JoinWith([i \in 1..Len(kept) |->
                           Quote(kept[i].k) \o <<58>> \o JSONstringify(kept[i].v)],
                        <<44>>)
            \o <<125>>
  ELSE <<110, 117, 108, 108>>

\* the outcome of a step of the parser: a value and the position after it,
\* or a SyntaxError
Parsed(value, next) == [ok |-> TRUE, value |-> value, next |-> next]

SyntaxError == [ok |-> FALSE, value |-> JUndefined, next |-> 0]

IsWhitespace(c) == c = 32 \/ c = 9 \/ c = 10 \/ c = 13

IsDigit(c) == c >= 48 /\ c <= 57

IsHexDigit(c) == IsDigit(c) \/ (c >= 97 /\ c <= 102) \/ (c >= 65 /\ c <= 70)

HexValue(c) == IF IsDigit(c) THEN c - 48 ELSE IF c >= 97 THEN c - 87 ELSE c - 55

\* the least element of a non-empty set of numbers
Least(S) == CHOOSE x \in S : \A y \in S : x <= y

\* the first position of stops, one past the end of s when there is none
FirstOf(stops, s) == IF stops = {} THEN Len(s) + 1 ELSE Least(stops)

\* the first position from i on that holds no white space
SkipWs(s, i) == FirstOf({j \in i..Len(s) : ~IsWhitespace(s[j])}, s)

\* the first position from i on that holds no digit
SkipDigits(s, i) == FirstOf({j \in i..Len(s) : ~IsDigit(s[j])}, s)

\* the number of backslashes that directly precede position j, counted back
\* to position lo at most
BackslashRun(s, lo, j) ==
  IF j <= lo \/ s[j - 1] # 92 THEN 0
  ELSE LET stops == {k \in lo..(j - 1) : s[k] # 92}
       IN IF stops = {} THEN j - lo
          ELSE j - 1 - (CHOOSE k \in stops : \A m \in stops : m <= k)

\* a backslash at position p of the string body s[lo..hi] begins an escape
BeginsEscape(s, lo, p) ==
  p >= lo /\ s[p] = 92 /\ (BackslashRun(s, lo, p) % 2) = 0

\* position p belongs to an escape that begins before it
InsideEscape(s, lo, p) ==
  \/ BeginsEscape(s, lo, p - 1)
  \/ \E q \in 2..5 : BeginsEscape(s, lo, p - q) /\ s[p - q + 1] = 117

\* the escape that begins at p is one of \" \\ \/ \b \f \n \r \t \uXXXX
EscapeIsValid(s, hi, p) ==
  /\ p < hi
  /\ \/ s[p + 1] \in {34, 92, 47, 98, 102, 110, 114, 116}
     \/ /\ s[p + 1] = 117
        /\ p + 5 <= hi
        /\ \A q \in 2..5 : IsHexDigit(s[p + q])

EscapeValue(s, p) ==
  LET c == s[p + 1]
  IN IF c = 98 THEN 8
     ELSE IF c = 102 THEN 12
     ELSE IF c = 110 THEN 10
     ELSE IF c = 114 THEN 13
     ELSE IF c = 116 THEN 9
     ELSE IF c = 117
       THEN (HexValue(s[p + 2]) * 4096) + (HexValue(s[p + 3]) * 256)
            + (HexValue(s[p + 4]) * 16) + HexValue(s[p + 5])
     ELSE c

\* a string literal that begins with the quote at position i
ParseString(s, i) ==
  LET closers == {j \in (i + 1)..Len(s) :
                    s[j] = 34 /\ (BackslashRun(s, i + 1, j) % 2) = 0}
      close == Least(closers)
      lo == i + 1
      hi == close - 1
      wellFormed ==
        \A p \in lo..hi :
          IF InsideEscape(s, lo, p) THEN TRUE
          ELSE IF BeginsEscape(s, lo, p) THEN EscapeIsValid(s, hi, p)
          ELSE s[p] >= 32
      unit(p) ==
        IF InsideEscape(s, lo, p) THEN <<>>
        ELSE IF BeginsEscape(s, lo, p) THEN <<EscapeValue(s, p)>>
        ELSE <<s[p]>>
  IN IF closers = {} THEN SyntaxError
     ELSE IF ~wellFormed THEN SyntaxError
     ELSE Parsed(JString(Flatten([k \in 1..(hi - lo + 1) |-> unit(lo + k - 1)])),
                 close + 1)

\* a number that begins at position i:
\* -? (0 | [1-9][0-9]*) (. [0-9]+)? ([eE] [+-]? [0-9]+)?
ParseNumber(s, i) ==
  LET at(p) == IF p <= Len(s) THEN s[p] ELSE 0
      digitsEnd(p) == SkipDigits(s, p)
      p1 == IF at(i) = 45 THEN i + 1 ELSE i
      p2 == IF at(p1) = 48 THEN p1 + 1 ELSE digitsEnd(p1)
      p3 == IF at(p2) = 46 THEN digitsEnd(p2 + 1) ELSE p2
      e1 == IF at(p3 + 1) = 43 \/ at(p3 + 1) = 45 THEN p3 + 2 ELSE p3 + 1
      p4 == IF at(p3) = 101 \/ at(p3) = 69 THEN digitsEnd(e1) ELSE p3
  IN IF p2 = p1 THEN SyntaxError
     ELSE IF at(p2) = 46 /\ p3 = p2 + 1 THEN SyntaxError
     ELSE IF (at(p3) = 101 \/ at(p3) = 69) /\ p4 = e1 THEN SyntaxError
     ELSE Parsed(JNumber(SubSeq(s, i, p4 - 1)), p4)

\* one of the words true, false, null at position i
ParseWord(s, i, word, value) ==
  IF i + Len(word) - 1 <= Len(s) /\ SubSeq(s, i, i + Len(word) - 1) = word
    THEN Parsed(value, i + Len(word))
  ELSE SyntaxError

RECURSIVE ParseValue(_, _)
RECURSIVE ParseMembers(_, _, _)
RECURSIVE ParseElements(_, _, _)
\* the value that begins at position i
ParseValue(s, i) ==
  IF i > Len(s) THEN SyntaxError
  ELSE IF s[i] = 34 THEN ParseString(s, i)
  ELSE IF s[i] = 123
    THEN LET j == SkipWs(s, i + 1)
         IN IF j <= Len(s) /\ s[j] = 125 THEN Parsed(JObject(<<>>), j + 1)
            ELSE ParseMembers(s, j, <<>>)
  ELSE IF s[i] = 91
    THEN LET j == SkipWs(s, i + 1)
         IN IF j <= Len(s) /\ s[j] = 93 THEN Parsed(JArray(<<>>), j + 1)
            ELSE ParseElements(s, j, <<>>)
  ELSE IF s[i] = 116 THEN ParseWord(s, i, <<116, 114, 117, 101>>, JTrue)
  ELSE IF s[i] = 102 THEN ParseWord(s, i, <<102, 97, 108, 115, 101>>, JFalse)
  ELSE IF s[i] = 110 THEN ParseWord(s, i, <<110, 117, 108, 108>>, JNull)
  ELSE IF s[i] = 45 \/ IsDigit(s[i]) THEN ParseNumber(s, i)
  ELSE SyntaxError

\* the members of an object from position i on, after the members of acc
ParseMembers(s, i, acc) ==
  IF i > Len(s) \/ s[i] # 34 THEN SyntaxError
  ELSE LET key == ParseString(s, i)
           colon == SkipWs(s, key.next)
           value == ParseValue(s, SkipWs(s, colon + 1))
           after == SkipWs(s, value.next)
           members == Append(acc, JMember(key.value.v, value.value))
       IN IF ~key.ok THEN SyntaxError
          ELSE IF colon > Len(s) \/ s[colon] # 58 THEN SyntaxError
          ELSE IF ~value.ok THEN SyntaxError
          ELSE IF after > Len(s) THEN SyntaxError
          ELSE IF s[after] = 125 THEN Parsed(JObject(members), after + 1)
          ELSE IF s[after] = 44
            THEN ParseMembers(s, SkipWs(s, after + 1), members)
          ELSE SyntaxError

\* the elements of an array from position i on, after the elements of acc
ParseElements(s, i, acc) ==
  LET value == ParseValue(s, i)
      after == SkipWs(s, value.next)
      elements == Append(acc, value.value)
  IN IF ~value.ok THEN SyntaxError
     ELSE IF after > Len(s) THEN SyntaxError
     ELSE IF s[after] = 93 THEN Parsed(JArray(elements), after + 1)
     ELSE IF s[after] = 44 THEN ParseElements(s, SkipWs(s, after + 1), elements)
     ELSE SyntaxError

\* JSON.parse(text): one value with white space around it, or a SyntaxError
JSONparse(text) ==
  LET r == ParseValue(text, SkipWs(text, 1))
  IN IF r.ok /\ SkipWs(text, r.next) > Len(text) THEN r ELSE SyntaxError

\* ------------------------------------------------------------------------
\* The strings of the API route and of the page
\* ------------------------------------------------------------------------
\* 'timestamp'
StrTimestamp ==
  <<116, 105, 109, 101, 115, 116, 97, 109, 112>>

\* 'records'
StrRecords ==
  <<114, 101, 99, 111, 114, 100, 115>>

\* 'id'
StrId ==
  <<105, 100>>

\* 'title'
StrTitle ==
  <<116, 105, 116, 108, 101>>

\* 'type'
StrType ==
  <<116, 121, 112, 101>>

\* 'sensitivity'
StrSensitivity ==
  <<115, 101, 110, 115, 105, 116, 105, 118, 105, 116, 121>>

\* 'date'
StrDate ==
  <<100, 97, 116, 101>>

\* 'encryptedData'
StrEncryptedData ==
  <<101, 110, 99, 114, 121, 112, 116, 101, 100, 68, 97, 116, 97>>

\* 'error'
StrError ==
  <<101, 114, 114, 111, 114>>

\* 'Encryption key not configured'
StrKeyNotConfigured ==
  <<69, 110, 99, 114, 121, 112, 116, 105, 111, 110, 32, 107, 101, 121, 32,
    110, 111, 116, 32, 99, 111, 110, 102, 105, 103, 117, 114, 101, 100>>

\* 'Failed to encrypt data'
StrFailedToEncrypt ==
  <<70, 97, 105, 108, 101, 100, 32, 116, 111, 32, 101, 110, 99, 114, 121,
    112, 116, 32, 100, 97, 116, 97>>

\* one record of the sample data
RecordItem(id, title, type, sensitivity, date) ==
  JObject(<<JMember(StrId, JString(id)), JMember(StrTitle, JString(title)),
            JMember(StrType, JString(type)),
            JMember(StrSensitivity, JString(sensitivity)),
            JMember(StrDate, JString(date))>>)

\* 'Survey'
StrSurvey ==
  <<83, 117, 114, 118, 101, 121>>

\* 'Record'
StrRecord ==
  <<82, 101, 99, 111, 114, 100>>

\* 'Confidential'
StrConfidential ==
  <<67, 111, 110, 102, 105, 100, 101, 110, 116, 105, 97, 108>>

\* 'Private'
StrPrivate ==
  <<80, 114, 105, 118, 97, 116, 101>>

\* 'Highly Confidential'
StrHighlyConfidential ==
  <<72, 105, 103, 104, 108, 121, 32, 67, 111, 110, 102, 105, 100, 101, 110,
    116, 105, 97, 108>>

\* 'Patient Survey #' and 'Medical Record #', the heads of the titles
StrPatientSurvey ==
  <<80, 97, 116, 105, 101, 110, 116, 32, 83, 117, 114, 118, 101, 121, 32, 35>>

StrMedicalRecord ==
  <<77, 101, 100, 105, 99, 97, 108, 32, 82, 101, 99, 111, 114, 100, 32, 35>>

\* '2024-01-', the head of the dates
StrDateHead ==
  <<50, 48, 50, 52, 45, 48, 49, 45>>

\* the records of sensitiveData
SampleRecords ==
  <<
    RecordItem(<<49>>, StrPatientSurvey \o <<48, 48, 49>>, StrSurvey,
               StrConfidential, StrDateHead \o <<49, 53>>),
    RecordItem(<<50>>, StrPatientSurvey \o <<48, 48, 50>>, StrSurvey,
               StrPrivate, StrDateHead \o <<49, 54>>),
    RecordItem(<<51>>, StrMedicalRecord \o <<49, 48, 49>>, StrRecord,
               StrHighlyConfidential, StrDateHead \o <<49, 55>>),
    RecordItem(<<52>>, StrPatientSurvey \o <<48, 48, 51>>, StrSurvey,
               StrConfidential, StrDateHead \o <<49, 56>>),
    RecordItem(<<53>>, StrMedicalRecord \o <<49, 48, 50>>, StrRecord,
               StrConfidential, StrDateHead \o <<49, 57>>),
    RecordItem(<<54>>, StrPatientSurvey \o <<48, 48, 52>>, StrSurvey,
               StrPrivate, StrDateHead \o <<50, 48>>),
    RecordItem(<<55>>, StrMedicalRecord \o <<49, 48, 51>>, StrRecord,
               StrHighlyConfidential, StrDateHead \o <<50, 49>>),
    RecordItem(<<56>>, StrPatientSurvey \o <<48, 48, 53>>, StrSurvey,
               StrConfidential, StrDateHead \o <<50, 50>>)
  >>

\* values of new Date().toISOString()
Timestamps ==
  {<<50, 48, 50, 52, 45, 48, 49, 45, 49, 53, 84, 49, 48, 58, 51, 48, 58, 48, 48, 46, 48, 48, 48, 90>>,
   <<50, 48, 50, 53, 45, 49, 50, 45, 51, 49, 84, 50, 51, 58, 53, 57, 58, 53, 57, 46, 57, 57, 57, 90>>}

\* ------------------------------------------------------------------------
\* The API route (GET) and the page (getDecryptedData, Home)
\* ------------------------------------------------------------------------
\* process.env.ENCRYPTION_KEY when the variable is not set: undefined
EnvUnset == <<-2>>

\* the values process.env.ENCRYPTION_KEY is given: unset, '' and two keys
EnvValues == {EnvUnset, <<>>, <<107>>, <<107, 50>>}

\* !encryptionKey is false: the variable is set and is not ''
IsSet(encryptionKey) == encryptionKey # EnvUnset /\ encryptionKey # <<>>

MsgKeyNotSet == "ENCRYPTION_KEY environment variable is not set"

MsgFailedToFetch == "Failed to fetch encrypted data"

\* the rejection of fetch when no response arrives
MsgFetchFailed == "fetch failed"

\* what response.json() and JSON.parse throw on a text that is not JSON
MsgSyntaxError == "SyntaxError"

\* destructuring null, reading a property of null, calling split on a value
\* that has none
MsgTypeError == "TypeError"

\* a response as fetch resolves it: status and body text
Response(status, body) == [rejected |-> FALSE, status |-> status, body |-> body]

\* fetch rejects: there is no response
Rejected == [rejected |-> TRUE, status |-> 0, body |-> <<>>]

\* NextResponse.json(body, { status }): the body is the JSON text of the value
NextResponseJson(body, status) == Response(status, JSONstringify(body))

\* response.ok
ResponseOk(response) == response.status >= 200 /\ response.status <= 299

\* the object literal sensitiveData, now being new Date().toISOString()
SensitiveData(now) ==
  JObject(<<JMember(StrTimestamp, JString(now)),
            JMember(StrRecords, JArray(SampleRecords))>>)

\* what one run of GET did
Handled(sensitiveData, encryptedPayload, logged, response) ==
  [encrypted |-> encryptedPayload # NoValue, sensitiveData |-> sensitiveData,
   encryptedPayload |-> encryptedPayload, logged |-> logged,
   response |-> response]

\* a variant of the route: the payload is base64-encoded once more before it
\* is put in the body
GETBase64Payload(encryptionKey, now, iv) ==
  IF ~IsSet(encryptionKey)
    THEN Handled(JUndefined, NoValue, FALSE,
                 NextResponseJson(JObject(<<JMember(StrError,
                                     JString(StrKeyNotConfigured))>>), 500))
    ELSE
      LET sensitiveData == SensitiveData(now)
          text == JSONstringify(sensitiveData)
      IN IF encryptThrows(text, encryptionKey, iv) # ""
           THEN Handled(sensitiveData, NoValue, TRUE,
                        NextResponseJson(JObject(<<JMember(StrError,
                                            JString(StrFailedToEncrypt))>>), 500))
           ELSE LET encryptedPayload == encrypt(text, encryptionKey, iv)
                IN Handled(sensitiveData, encryptedPayload, FALSE,
                           NextResponseJson(JObject(<<JMember(StrEncryptedData,
                             JString(ToBase64(Utf8Encode(encryptedPayload))))>>),
                             200))

\* 'keyId'
StrKeyId == <<107, 101, 121, 73, 100>>

\* a variant of the route: the success response names the key it used
GETEchoesKey(encryptionKey, now, iv) ==
  IF ~IsSet(encryptionKey)
    THEN Handled(JUndefined, NoValue, FALSE,
                 NextResponseJson(JObject(<<JMember(StrError,
                                     JString(StrKeyNotConfigured))>>), 500))
    ELSE
      LET sensitiveData == SensitiveData(now)
          text == JSONstringify(sensitiveData)
      IN IF encryptThrows(text, encryptionKey, iv) # ""
           THEN Handled(sensitiveData, NoValue, TRUE,
                        NextResponseJson(JObject(<<JMember(StrError,
                                            JString(StrFailedToEncrypt))>>), 500))
           ELSE LET encryptedPayload == encrypt(text, encryptionKey, iv)
                IN Handled(sensitiveData, encryptedPayload, FALSE,
                           NextResponseJson(JObject(<<JMember(StrEncryptedData,
                                               JString(encryptedPayload)),
                                             JMember(StrKeyId,
                                               JString(encryptionKey))>>),
                                            200))

\* a variant of the route: only the unset key is refused,
\* if (encryptionKey === undefined)
GETRefusesUnsetOnly(encryptionKey, now, iv) ==
  IF encryptionKey = EnvUnset
    THEN Handled(JUndefined, NoValue, FALSE,
                 NextResponseJson(JObject(<<JMember(StrError,
                                     JString(StrKeyNotConfigured))>>), 500))
    ELSE
      LET sensitiveData == SensitiveData(now)
          text == JSONstringify(sensitiveData)
      IN IF encryptThrows(text, encryptionKey, iv) # ""
           THEN Handled(sensitiveData, NoValue, TRUE,
                        NextResponseJson(JObject(<<JMember(StrError,
                                            JString(StrFailedToEncrypt))>>), 500))
           ELSE LET encryptedPayload == encrypt(text, encryptionKey, iv)
                IN Handled(sensitiveData, encryptedPayload, FALSE,
                           NextResponseJson(JObject(<<JMember(StrEncryptedData,
                                               JString(encryptedPayload))>>),
                                            200))

\* GET(): iv is what crypto.randomBytes returns inside encrypt
GET(encryptionKey, now, iv) ==
  IF ~IsSet(encryptionKey)
    THEN Handled(JUndefined, NoValue, FALSE,
                 NextResponseJson(JObject(<<JMember(StrError,
                                     JString(StrKeyNotConfigured))>>), 500))
    ELSE
      LET sensitiveData == SensitiveData(now)
          text == JSONstringify(sensitiveData)
      IN IF encryptThrows(text, encryptionKey, iv) # ""
           THEN Handled(sensitiveData, NoValue, TRUE,
                        NextResponseJson(JObject(<<JMember(StrError,
                                            JString(StrFailedToEncrypt))>>), 500))
           ELSE LET encryptedPayload == encrypt(text, encryptionKey, iv)
                IN Handled(sensitiveData, encryptedPayload, FALSE,
                           NextResponseJson(JObject(<<JMember(StrEncryptedData,
                                               JString(encryptedPayload))>>),
                                            200))

\* decrypt was not reached
NotDecrypted ==
  [called |-> FALSE, encryptedText |-> NoValue,
   result |-> [ok |-> FALSE, value |-> NoValue, error |-> "", events |-> <<>>]]

\* getDecryptedData resolves with a value
Resolved(value, decrypted) ==
  [ok |-> TRUE, value |-> value, error |-> "", logged |-> FALSE,
   decrypted |-> decrypted]

\* getDecryptedData rejects; logged: the catch clause has run console.error
Rejects(error, logged, decrypted) ==
  [ok |-> FALSE, value |-> JUndefined, error |-> error, logged |-> logged,
   decrypted |-> decrypted]

\* the decrypt call of the page, on a string
Decrypted(encryptedText, secretKey) ==
  [called |-> TRUE, encryptedText |-> encryptedText,
   result |-> decrypt(encryptedText, secretKey)]

\* return JSON.parse(decryptedJson), data being what JSON.parse gives
Parse(decrypted, data) ==
  IF data.ok THEN Resolved(data.value, decrypted)
  ELSE Rejects(MsgSyntaxError, TRUE, decrypted)

\* from the return of the decrypt call on
AfterDecrypt(decrypted) ==
  IF ~decrypted.result.ok THEN Rejects(decrypted.result.error, TRUE, decrypted)
  ELSE Parse(decrypted, JSONparse(decrypted.result.value))

\* decrypt(encryptedData, encryptionKey): a value that is not a string has
\* no split to call
CallDecrypt(encryptedData, encryptionKey) ==
  IF encryptedData.t # "string" THEN Rejects(MsgTypeError, TRUE, NotDecrypted)
  ELSE AfterDecrypt(Decrypted(encryptedData.v, encryptionKey))

\* const { encryptedData } = await response.json(), body being what the
\* parse of the body text gives: null cannot be destructured
Destructure(body, encryptionKey) ==
  IF ~body.ok THEN Rejects(MsgSyntaxError, TRUE, NotDecrypted)
  ELSE IF body.value = JNull THEN Rejects(MsgTypeError, TRUE, NotDecrypted)
  ELSE CallDecrypt(Get(body.value, StrEncryptedData), encryptionKey)

\* the body of the try block from the response on
AfterFetch(encryptionKey, response) ==
  IF response.rejected THEN Rejects(MsgFetchFailed, TRUE, NotDecrypted)
  ELSE IF ~ResponseOk(response) THEN Rejects(MsgFailedToFetch, TRUE, NotDecrypted)
  ELSE Destructure(JSONparse(response.body), encryptionKey)

\* the catch clause of the variant below
Fallback(r) ==
  IF r.ok THEN r
  ELSE [r EXCEPT !.ok = TRUE, !.error = "",
                 !.value = JObject(<<JMember(StrTimestamp, JString(<<>>)),
                                     JMember(StrRecords, JArray(<<>>))>>)]

\* a variant of the page's loader: the catch clause logs the error and
\* returns { timestamp: '', records: [] }
getDecryptedDataWithFallback(encryptionKey, response) ==
  IF ~IsSet(encryptionKey) THEN Rejects(MsgKeyNotSet, FALSE, NotDecrypted)
  ELSE Fallback(AfterFetch(encryptionKey, response))

\* getDecryptedData(): the catch clause logs the error and throws it again
getDecryptedData(encryptionKey, response) ==
  IF ~IsSet(encryptionKey) THEN Rejects(MsgKeyNotSet, FALSE, NotDecrypted)
  ELSE AfterFetch(encryptionKey, response)

\* what Home did: the element tree returned, or the error it rejected with
NotRendered(error) ==
  [rendered |-> FALSE, error |-> error, timestamp |-> JUndefined,
   initialRecords |-> JUndefined]

\* the body of Home after the await: initialData.timestamp and
\* initialData.records are read from the value getDecryptedData resolved with
Render(initialData) ==
  IF ~initialData.ok THEN NotRendered(initialData.error)
  ELSE IF initialData.value = JNull THEN NotRendered(MsgTypeError)
  ELSE [rendered |-> TRUE, error |-> "",
        timestamp |-> Get(initialData.value, StrTimestamp),
        initialRecords |-> Get(initialData.value, StrRecords)]

\* Home()
Home(encryptionKey, response) ==
  Render(getDecryptedData(encryptionKey, response))

\* ------------------------------------------------------------------------
\* One request of the page
\* ------------------------------------------------------------------------
\* plaintexts another producer may have sealed under the page's key:
\* 'Hello, World!', '', 'null', '{}' and '{"records":[]}'
ForeignTexts ==
  {<<72, 101, 108, 108, 111, 44, 32, 87, 111, 114, 108, 100, 33>>,
   <<>>, <<110, 117, 108, 108>>, <<123, 125>>,
   <<123, 34, 114, 101, 99, 111, 114, 100, 115, 34, 58, 91, 93, 125>>}

\* bodies of responses that carry no envelope: 'Not Found', 'null', '{}',
\* '{"encryptedData":123}' and '{"encryptedData":null}'
StrNotFound == <<78, 111, 116, 32, 70, 111, 117, 110, 100>>

BodiesWithoutEnvelope ==
  {StrNotFound, <<110, 117, 108, 108>>, <<123, 125>>,
   <<123, 34, 101, 110, 99, 114, 121, 112, 116, 101, 100, 68, 97, 116, 97,
     34, 58, 49, 50, 51, 125>>,
   <<123, 34, 101, 110, 99, 114, 121, 112, 116, 101, 100, 68, 97, 116, 97,
     34, 58, 110, 117, 108, 108, 125>>}

\* the responses the fetch can resolve with when the route's handler is not
\* the one that answers: error statuses, bodies that carry no envelope,
\* envelopes of other plaintexts, altered envelopes
OtherResponses(encryptionKey, iv) ==
  LET sealed == {encrypt(text, encryptionKey, iv) : text \in ForeignTexts}
      altered == UNION {Tampered(e) \cup WrongPartCount(e) : e \in sealed}
  IN {Response(404, StrNotFound), Response(503, <<>>)}
     \cup {Response(200, body) : body \in BodiesWithoutEnvelope}
     \cup {NextResponseJson(JObject(<<JMember(StrEncryptedData,
                                               JString(e))>>), 200) :
             e \in sealed \cup altered}

\* ------------------------------------------------------------------------
\* The client component ClientRecordsViewer: filter and sort
\* ------------------------------------------------------------------------
\* letters of the scripts the model's strings are written in: ASCII,
\* Latin-1 and Greek
IsUpper(c) ==
  \/ c >= 65 /\ c <= 90
  \/ c >= 192 /\ c <= 222 /\ c # 215
  \/ c >= 913 /\ c <= 939 /\ c # 930

IsLower(c) ==
  \/ c >= 97 /\ c <= 122
  \/ c >= 223 /\ c <= 255 /\ c # 247
  \/ c = 181
  \/ c >= 945 /\ c <= 969

IsCased(c) == IsUpper(c) \/ IsLower(c) \/ c = 304

\* capital sigma, small sigma, final small sigma, capital I with dot above,
\* combining dot above
CapitalSigma == 931

SmallSigma == 963

FinalSigma == 962

CapitalIWithDot == 304

CombiningDot == 775

\* Unicode's Final_Sigma context: a cased letter before, none after
IsFinalSigma(s, i) ==
  /\ s[i] = CapitalSigma
  /\ i > 1 /\ IsCased(s[i - 1])
  /\ i = Len(s) \/ ~IsCased(s[i + 1])

\* the lower case of the character at i: the simple mapping, and the two
\* special casings that do not depend on the locale
LowerAt(s, i) ==
  IF s[i] = CapitalIWithDot THEN <<105, CombiningDot>>
  ELSE IF s[i] = CapitalSigma
    THEN IF IsFinalSigma(s, i) THEN <<FinalSigma>> ELSE <<SmallSigma>>
  ELSE IF IsUpper(s[i]) THEN <<s[i] + 32>>
  ELSE <<s[i]>>

\* String.prototype.toLowerCase
toLowerCase(s) == Flatten([i \in 1..Len(s) |-> LowerAt(s, i)])

\* String.prototype.includes
includes(s, searchString) ==
  \E p \in 0..(Len(s) - Len(searchString)) :
    SubSeq(s, p + 1, p + Len(searchString)) = searchString

\* record.title, record.type, record.sensitivity, record.date
Field(record, name) == Get(record, name).v

\* the callback of filter
Matches(record, searchQuery) ==
  \/ includes(toLowerCase(Field(record, StrTitle)), toLowerCase(searchQuery))
  \/ includes(toLowerCase(Field(record, StrType)), toLowerCase(searchQuery))
  \/ includes(toLowerCase(Field(record, StrSensitivity)),
              toLowerCase(searchQuery))

\* a variant of the filter: the query is compared as typed, not lower-cased
filterQueryAsTyped(records, searchQuery) ==
  SelectSeq(records,
            LAMBDA record :
              \/ includes(toLowerCase(Field(record, StrTitle)), searchQuery)
              \/ includes(toLowerCase(Field(record, StrType)), searchQuery)
              \/ includes(toLowerCase(Field(record, StrSensitivity)),
                          searchQuery))

\* initialRecords.filter(...)
filter(records, searchQuery) ==
  SelectSeq(records, LAMBDA record : Matches(record, searchQuery))

\* the number written by the digits of s at positions lo..hi
RECURSIVE DigitsValue(_, _, _)
DigitsValue(s, lo, hi) ==
  IF hi < lo THEN 0 ELSE DigitsValue(s, lo, hi - 1) * 10 + (s[hi] - 48)

IsLeapYear(y) == (y % 4 = 0 /\ y % 100 # 0) \/ y % 400 = 0

DaysInMonth(y, m) ==
  IF m = 2 THEN (IF IsLeapYear(y) THEN 29 ELSE 28)
  ELSE IF m \in {4, 6, 9, 11} THEN 30 ELSE 31

\* days from 1970-01-01 to the day y-m-d of the proleptic Gregorian calendar
DaysFromCivil(y, m, d) ==
  LET yy == IF m <= 2 THEN y - 1 ELSE y
      era == yy \div 400
      yoe == yy - era * 400
      mp == (m + 9) % 12
      doy == (153 * mp + 2) \div 5 + d - 1
      doe == yoe * 365 + yoe \div 4 - yoe \div 100 + doy
  IN era * 146097 + doe - 719468

\* a time value, or NaN
TimeValue(days) == [nan |-> FALSE, days |-> days]

NaN == [nan |-> TRUE, days |-> 0]

\* the date-only form YYYY-MM-DD of the date-time string format
IsDateOnlyForm(s) ==
  /\ Len(s) = 10
  /\ s[5] = 45 /\ s[8] = 45
  /\ \A i \in {1, 2, 3, 4, 6, 7, 9, 10} : IsDigit(s[i])

\* new Date(s).getTime(): midnight UTC of the day for a date-only string,
\* NaN for a string that is no date. The value is kept in days; the
\* milliseconds are 86400000 times that.
getTime(s) ==
  IF ~IsDateOnlyForm(s) THEN NaN
  ELSE LET y == DigitsValue(s, 1, 4)
           m == DigitsValue(s, 6, 7)
           d == DigitsValue(s, 9, 10)
       IN IF m < 1 \/ m > 12 \/ d < 1 \/ d > DaysInMonth(y, m) THEN NaN
          ELSE TimeValue(DaysFromCivil(y, m, d))

Sign(n) == IF n < 0 THEN -1 ELSE IF n > 0 THEN 1 ELSE 0

\* x - y on time values, as the sort sees it: a NaN result counts as +0
Minus(x, y) == IF x.nan \/ y.nan THEN 0 ELSE Sign(x.days - y.days)

\* the weights of a letter in the collation: the letter without its case
\* first, lower case before upper case last
Primary(c) == IF IsUpper(c) THEN c + 32 ELSE c

Tertiary(c) == IF IsUpper(c) THEN 1 ELSE 0

\* lexicographic comparison of two sequences of numbers
CompareSeq(a, b) ==
  LET differ == {i \in 1..Len(a) : i > Len(b) \/ a[i] # b[i]}
  IN IF differ = {}
       THEN (IF Len(a) = Len(b) THEN 0 ELSE -1)
       ELSE LET i == Least(differ)
            IN IF i > Len(b) THEN 1 ELSE Sign(a[i] - b[i])

\* a.localeCompare(b) for strings of letters and spaces
localeCompare(a, b) ==
  LET p == CompareSeq([i \in 1..Len(a) |-> Primary(a[i])],
                      [i \in 1..Len(b) |-> Primary(b[i])])
  IN IF p # 0 THEN p
     ELSE CompareSeq([i \in 1..Len(a) |-> Tertiary(a[i])],
                     [i \in 1..Len(b) |-> Tertiary(b[i])])

\* 'date', 'type', 'sensitivity': the values of sortBy
SortByValues == {"date", "type", "sensitivity"}

\* the comparator given to sort
compare(sortBy, a, b) ==
  IF sortBy = "date"
    THEN Minus(getTime(Field(b, StrDate)), getTime(Field(a, StrDate)))
  ELSE IF sortBy = "type"
    THEN localeCompare(Field(a, StrType), Field(b, StrType))
  ELSE IF sortBy = "sensitivity"
    THEN localeCompare(Field(a, StrSensitivity), Field(b, StrSensitivity))
  ELSE 0

\* the comparator is a consistent comparator for the elements of the list:
\* it orders them as a strict weak order does
IsConsistent(list, sortBy) ==
  LET n == Len(list)
      c(i, j) == compare(sortBy, list[i], list[j])
  IN /\ \A i \in 1..n : c(i, i) = 0
     /\ \A i, j \in 1..n : c(i, j) = -c(j, i)
     /\ \A i, j, k \in 1..n :
          /\ (c(i, j) = 0 /\ c(j, k) = 0) => c(i, k) = 0
          /\ (c(i, j) < 0 /\ c(j, k) < 0) => c(i, k) < 0

\* the place of element i after a stable sort: behind the elements that
\* compare lower and the equal ones that came before it
PlaceOf(list, sortBy, i) ==
  Cardinality({j \in 1..Len(list) :
                 \/ compare(sortBy, list[j], list[i]) < 0
                 \/ compare(sortBy, list[j], list[i]) = 0 /\ j <= i})

StableSort(list, sortBy) ==
  [p \in 1..Len(list) |->
     list[CHOOSE i \in 1..Len(list) : PlaceOf(list, sortBy, i) = p]]

\* the orders of the elements of the list
Orders(list) ==
  LET n == Len(list)
  IN {[p \in 1..n |-> list[f[p]]] :
        f \in {g \in [1..n -> 1..n] : \A i, j \in 1..n : g[i] = g[j] => i = j}}

\* what list.sort(comparator) can leave in the list: the stable order, and
\* an order the implementation defines when the comparator is not consistent
sort(list, sortBy) ==
  IF IsConsistent(list, sortBy) THEN {StableSort(list, sortBy)}
  ELSE Orders(list)

\* ------------------------------------------------------------------------
\* Records and queries given to ClientRecordsViewer
\* ------------------------------------------------------------------------
\* the first sample record of the route; a record with a Greek title that
\* ends in a capital sigma and a date that is no date ('soon'); an older
\* record with a Latin-1 capital and a lower-case sensitivity ('record É',
\* 'private')
RecordPool ==
  {SampleRecords[1],
   RecordItem(<<50>>, <<927, CapitalSigma>>, StrRecord, StrConfidential,
              <<115, 111, 111, 110>>),
   RecordItem(<<51>>, <<114, 101, 99, 111, 114, 100, 32, 201>>, StrRecord,
              <<112, 114, 105, 118, 97, 116, 101>>,
              <<50, 48, 50, 51, 45, 49, 50, 45, 51, 49>>)}

\* the lists of at most MaxRecords records
RecordLists == UNION {[1..n -> RecordPool] : n \in 0..MaxRecords}

\* what is typed in the search box: '', 'sur', 'PRIV', 'Σ', 'é', 'zzz'
Queries ==
  {<<>>, <<115, 117, 114>>, <<80, 82, 73, 86>>, <<CapitalSigma>>, <<233>>, <<122, 122, 122>>}

\* ------------------------------------------------------------------------
\* State
\* ------------------------------------------------------------------------
\* the encrypt calls made so far: arguments, nonce drawn, result
VARIABLE calls

\* the values the random source has handed out
VARIABLE drawn

\* the latest decrypt call: arguments and outcome
VARIABLE dec

\* the exchange between the page's fetch and what answers it
VARIABLE api

\* the page's request: where Home stands and how it ended
VARIABLE home

\* ClientRecordsViewer: its props, its state and what it shows
VARIABLE viewer

\* TypingAnimation: its props, its state and its interval timer
VARIABLE typing

vars == <<calls, drawn, dec, api, home, viewer, typing>>

\* ClientRecordsViewer is not on the screen
NoViewer ==
  [mounted |-> FALSE, initialRecords |-> <<>>, searchQuery |-> <<>>,
   sortBy |-> "date", filteredAndSortedRecords |-> <<>>, showing |-> 0,
   total |-> 0]

\* no interval timer is running
NoInterval == [active |-> FALSE, text |-> <<>>, currentIndex |-> 0]

\* TypingAnimation is not on the screen
NoTyping ==
  [mounted |-> FALSE, text |-> <<>>, displayedText |-> <<>>,
   isComplete |-> FALSE, interval |-> NoInterval, changes |-> 0]

\* a request of the page has not begun
Idle ==
  [pc |-> "idle", encryptionKey |-> EnvUnset,
   outcome |-> Rejects("", FALSE, NotDecrypted), view |-> NotRendered("")]

\* the fetch has not been answered
NoExchange ==
  [answered |-> FALSE, byRoute |-> FALSE, encryptionKey |-> EnvUnset,
   handled |-> Handled(JUndefined, NoValue, FALSE, Rejected)]

NoCall ==
  [called |-> FALSE, encryptedText |-> <<>>, secretKey |-> <<>>,
   result |-> [ok |-> FALSE, value |-> NoValue, error |-> "", events |-> <<>>]]

Init ==
  /\ calls = <<>>
  /\ drawn = {}
  /\ dec = NoCall
  /\ api = NoExchange
  /\ home = Idle
  /\ viewer = NoViewer
  /\ typing = NoTyping

\* crypto.randomBytes(IV_LENGTH) inside encrypt: a value not handed out before
DoEncrypt(text, secretKey) ==
  \E iv \in RandomPool(IV_LENGTH) \ drawn :
    LET error == encryptThrows(text, secretKey, iv)
    IN /\ calls' = Append(calls, [text |-> text, secretKey |-> secretKey,
                                  iv |-> iv,
                                  error |-> error,
                                  out |-> IF error = ""
                                            THEN encrypt(text, secretKey, iv)
                                            ELSE NoValue])
       /\ drawn' = drawn \cup {iv}
       /\ UNCHANGED <<dec, api, home, viewer, typing>>

\* a variant of the call: the key derived by the previous decrypt call is
\* kept in a module-level variable and used again
DoDecryptStaleKey(encryptedText, secretKey) ==
  /\ dec' = [called |-> TRUE, encryptedText |-> encryptedText,
             secretKey |-> secretKey,
             result |-> decrypt(encryptedText,
                                IF dec.called THEN dec.secretKey
                                ELSE secretKey)]
  /\ UNCHANGED <<calls, drawn, api, home, viewer, typing>>

DoDecrypt(encryptedText, secretKey) ==
  /\ dec' = [called |-> TRUE, encryptedText |-> encryptedText,
             secretKey |-> secretKey,
             result |-> decrypt(encryptedText, secretKey)]
  /\ UNCHANGED <<calls, drawn, api, home, viewer, typing>>

\* one encrypt call on any plaintext
Encrypt ==
  /\ Len(calls) < 1
  /\ \E text \in Texts, secretKey \in Passphrases : DoEncrypt(text, secretKey)

\* a sequence of encrypt calls
EncryptNext ==
  /\ Len(calls) < MaxCalls
  /\ \E text \in SeqTexts, secretKey \in Passphrases : DoEncrypt(text, secretKey)

\* decrypt is given an envelope exactly as encrypt returned it
DecryptEnvelope ==
  /\ ~dec.called
  /\ \E i \in 1..Len(calls), secretKey \in Passphrases :
        DoDecrypt(calls[i].out, secretKey)

\* decrypt is given an envelope one field of which was replaced
DecryptTampered ==
  /\ ~dec.called
  /\ \E i \in 1..Len(calls), secretKey \in Passphrases :
        \E e \in Tampered(calls[i].out) : DoDecrypt(e, secretKey)

\* decrypt is given a string that does not have three fields
DecryptMalformed ==
  /\ ~dec.called
  /\ \E i \in 1..Len(calls), secretKey \in Passphrases :
        \E e \in WrongPartCount(calls[i].out) : DoDecrypt(e, secretKey)

\* one encrypt call followed by one decrypt call, over all inputs
Next == Encrypt \/ DecryptEnvelope \/ DecryptTampered \/ DecryptMalformed

Spec == Init /\ [][Next]_vars

\* decrypt calls on the envelopes returned so far, in any order, repeatedly
DecryptNext ==
  \E i \in 1..Len(calls), secretKey \in Passphrases :
    DoDecrypt(calls[i].out, secretKey)

\* any interleaving of encrypt and decrypt calls
NextSeq == EncryptNext \/ DecryptNext

SpecSeq == Init /\ [][NextSeq]_vars

\* Home runs to the end: getDecryptedData settles and Home returns or rejects
HomeSettles(encryptionKey, response) ==
  home' = [pc |-> "done", encryptionKey |-> encryptionKey,
           outcome |-> getDecryptedData(encryptionKey, response),
           view |-> Home(encryptionKey, response)]

\* a variant of the page's loader: the fetch is sent first and the key is
\* looked at when the response is there
HomeStartFetchesFirst ==
  /\ home.pc = "idle"
  /\ \E encryptionKey \in EnvValues :
       home' = [home EXCEPT !.pc = "fetching", !.encryptionKey = encryptionKey]
  /\ UNCHANGED <<calls, drawn, dec, api, viewer, typing>>

\* a request arrives: Home calls getDecryptedData, which reads the key and
\* either throws at once or sends the fetch and awaits it
HomeStart ==
  /\ home.pc = "idle"
  /\ \E encryptionKey \in EnvValues :
       IF IsSet(encryptionKey)
         THEN home' = [home EXCEPT !.pc = "fetching",
                                   !.encryptionKey = encryptionKey]
         ELSE HomeSettles(encryptionKey, Rejected)
  /\ UNCHANGED <<calls, drawn, dec, api, viewer, typing>>

\* the route's GET handler answers the fetch, with the key of its own process
RouteGET ==
  /\ home.pc = "fetching"
  /\ ~api.answered
  /\ \E encryptionKey \in EnvValues, now \in Timestamps :
       \E iv \in RandomPool(IV_LENGTH) \ drawn :
         LET handled == GET(encryptionKey, now, iv)
         IN /\ api' = [answered |-> TRUE, byRoute |-> TRUE,
                       encryptionKey |-> encryptionKey, handled |-> handled]
            /\ drawn' = IF IsSet(encryptionKey) THEN drawn \cup {iv} ELSE drawn
  /\ UNCHANGED <<calls, dec, home, viewer, typing>>

\* no response arrives: fetch rejects
FetchRejects ==
  /\ home.pc = "fetching"
  /\ ~api.answered
  /\ api' = [NoExchange EXCEPT !.answered = TRUE]
  /\ UNCHANGED <<calls, drawn, dec, home, viewer, typing>>

\* something other than the route's handler answers the fetch
OtherResponse ==
  /\ home.pc = "fetching"
  /\ ~api.answered
  /\ \E iv \in RandomPool(IV_LENGTH) :
       \E response \in OtherResponses(home.encryptionKey, iv) :
         api' = [NoExchange EXCEPT !.answered = TRUE,
                                   !.handled.response = response]
  /\ UNCHANGED <<calls, drawn, dec, home, viewer, typing>>

\* the awaited fetch settles and Home runs to the end
HomeResume ==
  /\ home.pc = "fetching"
  /\ api.answered
  /\ HomeSettles(home.encryptionKey, api.handled.response)
  /\ UNCHANGED <<calls, drawn, dec, api, viewer, typing>>

\* one request of the page, answered by the route or otherwise
NextHome == HomeStart \/ RouteGET \/ FetchRejects \/ OtherResponse \/ HomeResume

SpecHome == Init /\ [][NextHome]_vars

\* ------------------------------------------------------------------------
\* ClientRecordsViewer on the screen
\* ------------------------------------------------------------------------
\* the component function: filteredAndSortedRecords is computed from the
\* props and the state, sorted being what sort left in the filtered copy
Viewer(initialRecords, searchQuery, sortBy, sorted) ==
  [mounted |-> TRUE, initialRecords |-> initialRecords,
   searchQuery |-> searchQuery, sortBy |-> sortBy,
   filteredAndSortedRecords |-> sorted,
   showing |-> Len(sorted), total |-> Len(initialRecords)]

\* a variant of the component: the props array itself is sorted, and then
\* filtered
RenderViewerSortsProps(initialRecords, searchQuery, sortBy) ==
  \E sorted \in sort(initialRecords, sortBy) :
    viewer' = Viewer(sorted, searchQuery, sortBy, filter(sorted, searchQuery))

\* one render of the component
RenderViewer(initialRecords, searchQuery, sortBy) ==
  \E sorted \in sort(filter(initialRecords, searchQuery), sortBy) :
    viewer' = Viewer(initialRecords, searchQuery, sortBy, sorted)

\* Home renders the component: useState('') and useState('date')
ViewerMount ==
  /\ ~viewer.mounted
  /\ \E initialRecords \in RecordLists : RenderViewer(initialRecords, <<>>, "date")
  /\ UNCHANGED <<calls, drawn, dec, api, home, typing>>

\* onChange of the search box: setSearchQuery(e.target.value)
SetSearchQuery ==
  /\ viewer.mounted
  /\ \E value \in Queries :
       RenderViewer(viewer.initialRecords, value, viewer.sortBy)
  /\ UNCHANGED <<calls, drawn, dec, api, home, typing>>

\* onChange of the sort dropdown: setSortBy(e.target.value)
SetSortBy ==
  /\ viewer.mounted
  /\ \E value \in SortByValues :
       RenderViewer(viewer.initialRecords, viewer.searchQuery, value)
  /\ UNCHANGED <<calls, drawn, dec, api, home, typing>>

\* the records viewer under any sequence of searches and sort choices
NextViewer == ViewerMount \/ SetSearchQuery \/ SetSortBy

SpecViewer == Init /\ [][NextViewer]_vars

\* ------------------------------------------------------------------------
\* TypingAnimation
\* ------------------------------------------------------------------------
\* the values of the text prop
TypedTexts == StringsOver({<<97>>, <<98>>}, MaxTypedLen)

\* the effect of useEffect(..., [text]): let currentIndex = 0 and a new interval
\* timer whose callback closes over text
StartInterval(text) == [active |-> TRUE, text |-> text, currentIndex |-> 0]

\* the first render (displayedText '', isComplete false) and its effect
TypingMount ==
  /\ ~typing.mounted
  /\ \E text \in TypedTexts :
       typing' = [mounted |-> TRUE, text |-> text, displayedText |-> <<>>,
                  isComplete |-> FALSE, interval |-> StartInterval(text),
                  changes |-> 0]
  /\ UNCHANGED <<calls, drawn, dec, api, home, viewer>>

\* a timer callback that shows two more characters at a time
TickSkipsOne ==
  /\ typing.mounted
  /\ typing.interval.active
  /\ IF typing.interval.currentIndex < Len(typing.interval.text)
       THEN typing' =
              [typing EXCEPT
                 !.displayedText =
                    IF typing.interval.currentIndex + 2
                         <= Len(typing.interval.text)
                      THEN Prefix(typing.interval.text,
                                  typing.interval.currentIndex + 2)
                      ELSE typing.interval.text,
                 !.interval.currentIndex = typing.interval.currentIndex + 2]
       ELSE typing' = [typing EXCEPT !.interval.active = FALSE,
                                     !.isComplete = TRUE]
  /\ UNCHANGED <<calls, drawn, dec, api, home, viewer>>

\* the callback of setInterval, run every 50 ms while the interval is set
Tick ==
  /\ typing.mounted
  /\ typing.interval.active
  /\ IF typing.interval.currentIndex < Len(typing.interval.text)
       THEN typing' =
              [typing EXCEPT
                 !.displayedText =
                    Prefix(typing.interval.text,
                           typing.interval.currentIndex + 1),
                 !.interval.currentIndex = typing.interval.currentIndex + 1]
       ELSE typing' = [typing EXCEPT !.interval.active = FALSE,
                                     !.isComplete = TRUE]
  /\ UNCHANGED <<calls, drawn, dec, api, home, viewer>>

\* a render with another text: the cleanup of the effect clears the interval,
\* the effect runs again; displayedText and isComplete keep their values
ChangeText ==
  /\ typing.mounted
  /\ typing.changes < MaxChanges
  /\ \E text \in TypedTexts \ {typing.text} :
       typing' = [typing EXCEPT !.text = text,
                                !.interval = StartInterval(text),
                                !.changes = typing.changes + 1]
  /\ UNCHANGED <<calls, drawn, dec, api, home, viewer>>

\* the component leaves the screen: the cleanup of the effect clears the interval
Unmount ==
  /\ typing.mounted
  /\ typing' = NoTyping
  /\ UNCHANGED <<calls, drawn, dec, api, home, viewer>>

NextTyping == TypingMount \/ Tick \/ ChangeText \/ Unmount

\* TypingAnimation under any schedule of ticks, text changes and unmounts
SpecTyping == Init /\ [][NextTyping]_vars

\* the same with the timer firing for as long as the interval is set
SpecTypingFair == Init /\ [][NextTyping]_vars /\ WF_vars(Tick)

\* ------------------------------------------------------------------------
\* Vocabulary of the properties
\* ------------------------------------------------------------------------
\* the error kinds of the specification, told apart by the message thrown
IsFormatError(r) == ~r.ok /\ r.error = MsgInvalidFormat

IsAuthenticationError(r) == ~r.ok /\ r.error = MsgUnableToAuthenticate

Fields(e) == split(e, Colon)

HasThreeFields(e) == Len(Fields(e)) = 3

RawField(e, f) == FromBase64(Fields(e)[f])

Occurs(ev, name) == \E i \in 1..Len(ev) : ev[i] = name

Precedes(ev, a, b) ==
  \E i, j \in 1..Len(ev) : i < j /\ ev[i] = a /\ ev[j] = b

\* the latest decrypt call was given the envelope of call i unchanged
OpensCall(i) == dec.called /\ dec.encryptedText = calls[i].out

\* ------------------------------------------------------------------------
\* C1  Round trip
\* ------------------------------------------------------------------------
\* C1 (as stated): for every plaintext p and passphrase k,
\* decrypt(encrypt(p, k), k) returns exactly p, whatever the nonce.
C1_RoundTripEveryString ==
  \A i \in 1..Len(calls) :
    (OpensCall(i) /\ dec.secretKey = calls[i].secretKey)
      => (dec.result.ok /\ dec.result.value = calls[i].text)

\* C1 (amended): for every plaintext p without unpaired surrogates and every
\* passphrase k, decrypt(encrypt(p, k), k) returns exactly p, whatever the
\* nonce.
C1_RoundTripWellFormed ==
  \A i \in 1..Len(calls) :
    (OpensCall(i) /\ dec.secretKey = calls[i].secretKey
       /\ IsWellFormed(calls[i].text))
      => (dec.result.ok /\ dec.result.value = calls[i].text)

C1_Witness ==
  /\ Len(calls) = 1
  /\ OpensCall(1)
  /\ dec.secretKey = calls[1].secretKey
  /\ calls[1].text = <<55357, 56832>>
  /\ dec.result.value = <<55357, 56832>>

CiphertextAltered(i) ==
  /\ dec.called
  /\ dec.secretKey = calls[i].secretKey
  /\ HasThreeFields(dec.encryptedText)
  /\ Fields(dec.encryptedText)[1] = Fields(calls[i].out)[1]
  /\ Fields(dec.encryptedText)[2] = Fields(calls[i].out)[2]
  /\ RawField(dec.encryptedText, 3) # RawField(calls[i].out, 3)

\* C3: an envelope that keeps the nonce and tag fields but whose ciphertext
\* field decodes to different bytes fails with the authentication error.
C3_CiphertextTamperDetected ==
  \A i \in 1..Len(calls) :
    CiphertextAltered(i) => IsAuthenticationError(dec.result)

C3_Witness ==
  /\ Len(calls) = 1
  /\ CiphertextAltered(1)
  /\ Fields(dec.encryptedText)[3] = StrAAAA
  /\ ~dec.result.ok

\* ------------------------------------------------------------------------
\* C4  Nonce/tag tamper detection
\* ------------------------------------------------------------------------
NonceOrTagAltered(i) ==
  /\ dec.called
  /\ dec.secretKey = calls[i].secretKey
  /\ HasThreeFields(dec.encryptedText)
  /\ \/ RawField(dec.encryptedText, 1) # RawField(calls[i].out, 1)
     \/ RawField(dec.encryptedText, 2) # RawField(calls[i].out, 2)

\* C4: an envelope whose nonce field or tag field decodes to bytes other
\* than those encrypt produced (a shortened prefix included) makes decrypt
\* fail and give no plaintext.  The claim names the error kind as well; it
\* is stated here for any error, so that a violation is a decrypt call that
\* succeeds.
C4_NonceTagTamperDetected ==
  \A i \in 1..Len(calls) :
    NonceOrTagAltered(i) => (~dec.result.ok /\ dec.result.value = NoValue)

\* ------------------------------------------------------------------------
\* C5  No unverified plaintext
\* ------------------------------------------------------------------------
\* C5: decrypt returns a string only after setAuthTag and then final were
\* called and final did not throw; a call that fails gives an error and no
\* plaintext.
C5_NoUnverifiedPlaintext ==
  dec.called =>
    LET r == dec.result
    IN /\ r.ok => /\ Precedes(r.events, "setAuthTag", "final")
                  /\ Precedes(r.events, "final", "toString")
                  /\ ~Occurs(r.events, "throw")
       /\ ~r.ok => /\ r.value = NoValue
                   /\ r.error # ""
                   /\ r.events[Len(r.events)] = "throw"
                   /\ ~Occurs(r.events, "toString")

\* update has produced bytes from a ciphertext that final then rejected
C5_Witness ==
  /\ dec.called
  /\ ~dec.result.ok
  /\ Precedes(dec.result.events, "update", "final")
  /\ RawField(dec.encryptedText, 3) # <<>>

\* ------------------------------------------------------------------------
\* C6  Part-count check
\* ------------------------------------------------------------------------
\* C6: a string that does not split on ':' into exactly three parts fails
\* with "Invalid encrypted format. Expected iv:tag:data" before any base64
\* decoding or cipher initialisation.
C6_PartCountChecked ==
  (dec.called /\ ~HasThreeFields(dec.encryptedText))
    => /\ IsFormatError(dec.result)
       /\ ~Occurs(dec.result.events, "Buffer.from")
       /\ ~Occurs(dec.result.events, "createDecipheriv")

C6_Witness ==
  /\ dec.called
  /\ Len(Fields(dec.encryptedText)) = 4
  /\ IsFormatError(dec.result)

\* ------------------------------------------------------------------------
\* C7  Invalid base64 rejection
\* ------------------------------------------------------------------------
\* a character that is neither of the standard alphabet nor the padding
HasForeignChar(s) == \E p \in 1..Len(s) : ~IsStdChar(s[p]) /\ s[p] # Equals

\* C7: a three-part envelope with a field that is not valid standard base64
\* makes decrypt fail, never succeed.  The claim names the error kind as
\* well (the format error) and covers every invalid field; it is stated here
\* for any error and for fields with a character outside the alphabet, so
\* that a violation is a decrypt call that succeeds on such a field.
C7_InvalidBase64Rejected ==
  (/\ dec.called
   /\ HasThreeFields(dec.encryptedText)
   /\ \E f \in 1..3 : HasForeignChar(Fields(dec.encryptedText)[f]))
    => ~dec.result.ok

C10_ThreeNonEmptyFields ==
  \A i \in 1..Len(calls) :
    /\ HasThreeFields(calls[i].out)
    /\ \A f \in 1..3 :
         Fields(calls[i].out)[f] # <<>> /\ IsStdBase64(Fields(calls[i].out)[f])

\* C10 (amended): every envelope returned by encrypt splits on ':' into
\* exactly three base64 fields in the order nonce, tag, ciphertext; the nonce
\* and tag fields are non-empty, and the ciphertext field is empty exactly
\* when the plaintext is empty.
C10_ThreeBase64Fields ==
  \A i \in 1..Len(calls) :
    LET e == calls[i].out
        key == scryptSync(calls[i].secretKey, Salt, KEY_LENGTH)
    IN /\ HasThreeFields(e)
       /\ \A f \in 1..3 : IsStdBase64(Fields(e)[f])
       /\ Fields(e)[1] # <<>> /\ Fields(e)[2] # <<>>
       /\ (Fields(e)[3] = <<>>) <=> (calls[i].text = <<>>)
       /\ RawField(e, 1) = calls[i].iv
       /\ RawField(e, 2) = GcmTag(key, calls[i].iv, RawField(e, 3))
       /\ RawField(e, 3) = CtrXor(key, calls[i].iv, Utf8Encode(calls[i].text))

C10_Witness ==
  /\ Len(calls) = 1
  /\ calls[1].text = <<>>
  /\ Fields(calls[1].out)[3] = <<>>
  /\ HasThreeFields(calls[1].out)

\* ------------------------------------------------------------------------
\* C11  Sizes of the nonce and tag fields
\* ------------------------------------------------------------------------
\* C11: in every envelope returned by encrypt the nonce field decodes to
\* exactly 16 bytes and the tag field decodes to exactly 16 bytes.
C11_NonceAndTagSixteenBytes ==
  \A i \in 1..Len(calls) :
    /\ Len(RawField(calls[i].out, 1)) = 16
    /\ Len(RawField(calls[i].out, 2)) = 16

C11_Witness ==
  /\ Len(calls) = 1
  /\ calls[1].text = <<8364>>
  /\ Len(Fields(calls[1].out)[1]) = 24
  /\ Len(Fields(calls[1].out)[2]) = 24
  /\ Len(RawField(calls[1].out, 2)) = 16

\* ------------------------------------------------------------------------
\* C12  No padding
\* ------------------------------------------------------------------------
\* the number of bytes of s in UTF-8, counted from the code units: a
\* surrogate pair is four bytes, an unpaired surrogate three (U+FFFD)
Utf8ByteLength(s) ==
  LET bytes(i) ==
        IF s[i] < 128 THEN 1
        ELSE IF s[i] < 2048 THEN 2
        ELSE IF IsHighSurrogate(s[i]) /\ i < Len(s) /\ IsLowSurrogate(s[i + 1])
          THEN 4
        ELSE IF IsLowSurrogate(s[i]) /\ i > 1 /\ IsHighSurrogate(s[i - 1])
          THEN 0
        ELSE 3
      RECURSIVE sum(_)
      sum(i) == IF i = 0 THEN 0 ELSE bytes(i) + sum(i - 1)
  IN sum(Len(s))

\* C12: in every envelope returned by encrypt(p, k) the ciphertext field
\* decodes to as many bytes as p has in UTF-8 (none for the empty plaintext).
C12_CiphertextLengthIsUtf8Length ==
  \A i \in 1..Len(calls) :
    /\ Len(RawField(calls[i].out, 3)) = Utf8ByteLength(calls[i].text)
    /\ (calls[i].text = <<>>) => RawField(calls[i].out, 3) = <<>>

C12_Witness ==
  /\ Len(calls) = 1
  /\ calls[1].text = <<55357, 56832>>
  /\ Len(RawField(calls[1].out, 3)) = 4

EnvelopeAltered(i) ==
  /\ dec.called
  /\ dec.secretKey = calls[i].secretKey
  /\ HasThreeFields(dec.encryptedText)
  /\ \E f \in 1..3 : RawField(dec.encryptedText, f) # RawField(calls[i].out, f)

\* the failure r is the failure of decrypting the envelope of call i under
\* every other passphrase: same kind, same message
LooksLikeWrongKey(i, r) ==
  \A k2 \in Passphrases \ {calls[i].secretKey} :
    LET w == decrypt(calls[i].out, k2)
    IN /\ ~w.ok
       /\ w.error = r.error
       /\ ErrorName(w.error) = ErrorName(r.error)

C15_OnlyTheEnvelopeOpens ==
  \A i \in 1..Len(calls) :
    (/\ dec.called
     /\ dec.secretKey = calls[i].secretKey
     /\ dec.encryptedText # calls[i].out)
      => ~dec.result.ok

\* ------------------------------------------------------------------------
\* C16  Call independence
\* ------------------------------------------------------------------------
\* every call recorded has the outcome of the same call made alone: an
\* envelope is the one computed from the call's own text, passphrase and
\* nonce, a decrypt outcome the one computed from its own arguments
AsInIsolation ==
  /\ \A i \in 1..Len(calls) :
        /\ calls[i].error = ""
        /\ calls[i].out = encrypt(calls[i].text, calls[i].secretKey, calls[i].iv)
  /\ dec.called => dec.result = decrypt(dec.encryptedText, dec.secretKey)
  /\ \A i \in 1..Len(calls) :
        (OpensCall(i) /\ dec.secretKey # calls[i].secretKey)
          => IsAuthenticationError(dec.result)

KeyOf(passphrase) == scryptSync(passphrase, Salt, KEY_LENGTH)

\* C17: every encrypt call and every decrypt call works under the key of its
\* passphrase, 32 bytes derived with the fixed salt: each envelope is the
\* encryption of its text under that key, each decrypt call verifies the tag
\* under that key, and an unaltered envelope opens exactly under the
\* passphrase it was made with.
C17_SameKeyInEncryptAndDecrypt ==
  /\ \A k \in Passphrases : Len(KeyOf(k)) = 32
  /\ \A i \in 1..Len(calls) :
        LET e == calls[i].out
            key == KeyOf(calls[i].secretKey)
        IN /\ RawField(e, 3) = CtrXor(key, calls[i].iv, Utf8Encode(calls[i].text))
           /\ RawField(e, 2) = GcmTag(key, calls[i].iv, RawField(e, 3))
  /\ (/\ dec.called
      /\ HasThreeFields(dec.encryptedText)
      /\ Len(RawField(dec.encryptedText, 1)) > 0
      /\ IsValidGCMTagLength(Len(RawField(dec.encryptedText, 2))))
       => (dec.result.ok
             <=> TagVerifies(KeyOf(dec.secretKey),
                             RawField(dec.encryptedText, 1),
                             RawField(dec.encryptedText, 3),
                             RawField(dec.encryptedText, 2)))
  /\ \A i \in 1..Len(calls) :
        OpensCall(i) => (dec.result.ok <=> dec.secretKey = calls[i].secretKey)

C17_Witness ==
  /\ Len(calls) = 1
  /\ calls[1].secretKey = <<107>>
  /\ calls[1].text # <<>>
  /\ OpensCall(1)
  /\ dec.secretKey = <<107>>
  /\ dec.result.ok

\* ------------------------------------------------------------------------
\* C18  encrypt never fails on its input
\* ------------------------------------------------------------------------
\* C18: every encrypt call returns an envelope, whatever the plaintext and
\* the passphrase, the empty ones included.
C18_EncryptAlwaysReturns ==
  \A i \in 1..Len(calls) :
    /\ calls[i].error = ""
    /\ calls[i].out # NoValue
    /\ HasThreeFields(calls[i].out)

C18_Witness ==
  /\ Len(calls) = 1
  /\ calls[1].text = <<>>
  /\ calls[1].secretKey = <<>>
  /\ calls[1].error = ""
  /\ Len(RawField(calls[1].out, 2)) = 16

\* ------------------------------------------------------------------------
\* C19
\* ------------------------------------------------------------------------
\* the request of the page has failed: the fetch rejected or its response is
\* not ok, decrypt threw, or the decrypted text is not JSON
RequestFailed ==
  LET response == api.handled.response
      decrypted == home.outcome.decrypted
  IN \/ response.rejected
     \/ ~ResponseOk(response)
     \/ decrypted.called /\ ~decrypted.result.ok
     \/ /\ decrypted.called
        /\ decrypted.result.ok
        /\ ~JSONparse(decrypted.result.value).ok

\* C19: when decrypt throws, the fetch fails or the decrypted text is not
\* valid JSON, getDecryptedData rejects with that error and resolves with no
\* data, and Home rejects with the same error and renders nothing: no
\* records are handed to ClientRecordsViewer
C19_FailureIsFatal ==
  (home.pc = "done" /\ RequestFailed) =>
    /\ ~home.outcome.ok
    /\ home.outcome.error # ""
    /\ home.outcome.value = JUndefined
    /\ (home.outcome.decrypted.called /\ ~home.outcome.decrypted.result.ok)
         => home.outcome.error = home.outcome.decrypted.result.error
    /\ ~home.view.rendered
    /\ home.view.error = home.outcome.error
    /\ home.view.initialRecords = JUndefined

\* the page was given an envelope that does not authenticate under its key
C19_Witness ==
  /\ home.pc = "done"
  /\ api.answered
  /\ home.outcome.decrypted.called
  /\ IsAuthenticationError(home.outcome.decrypted.result)
  /\ home.outcome.logged
  /\ ~home.view.rendered

\* ------------------------------------------------------------------------
\* C20
\* ------------------------------------------------------------------------
\* C20: when the route's handler answers the page's fetch and both read the
\* same ENCRYPTION_KEY, the handler has encrypted, the encryptedData member
\* of its response body is the envelope encrypt returned, decrypt is called
\* on exactly that string, and getDecryptedData resolves with a value equal
\* to the sensitiveData object of that run of GET
C20_RouteDataReachesThePage ==
  (home.pc = "done" /\ api.byRoute /\ api.encryptionKey = home.encryptionKey) =>
    /\ api.handled.encrypted
    /\ Get(JSONparse(api.handled.response.body).value, StrEncryptedData)
         = JString(api.handled.encryptedPayload)
    /\ home.outcome.decrypted.called
    /\ home.outcome.decrypted.encryptedText = api.handled.encryptedPayload
    /\ home.outcome.ok
    /\ home.outcome.value = api.handled.sensitiveData
    /\ JSONstringify(home.outcome.value)
         = JSONstringify(api.handled.sensitiveData)

\* the page has rendered the eight records the route sealed
C20_Witness ==
  /\ home.pc = "done"
  /\ api.byRoute
  /\ api.encryptionKey = home.encryptionKey
  /\ home.view.rendered
  /\ home.view.initialRecords = JArray(SampleRecords)
  /\ home.view.timestamp.t = "string"

\* ------------------------------------------------------------------------
\* C21
\* ------------------------------------------------------------------------
\* the body of a success response: one member, encryptedData, the envelope
OnlyTheEnvelope(handled) ==
  JSONparse(handled.response.body).value
    = JObject(<<JMember(StrEncryptedData, JString(handled.encryptedPayload))>>)

\* what the route would have done had the key been k, the time and the
\* random bytes being the same
SameRunUnder(k) ==
  GET(k, Get(api.handled.sensitiveData, StrTimestamp).v,
      RawField(api.handled.encryptedPayload, 1))

\* under key k the response differs from the one sent in the envelope only,
\* the envelope opens to the same text, and Home hands the same props on
SameButForTheSeal(k, other) ==
  /\ other.response.status = api.handled.response.status
  /\ OnlyTheEnvelope(other)
  /\ decrypt(other.encryptedPayload, k)
       = decrypt(api.handled.encryptedPayload, api.encryptionKey)
  /\ (home.pc = "done" /\ home.encryptionKey = api.encryptionKey)
       => Home(k, other.response) = home.view

\* C21: the key is in no response body of GET and in no props of
\* ClientRecordsViewer: the error response is the same whatever the key's
\* falsy value, the success response has the envelope as its only member,
\* and under another key the response differs in the envelope only, which
\* opens to the same text, and ClientRecordsViewer receives the same props
C21_KeyConfined ==
  api.byRoute =>
    IF ~IsSet(api.encryptionKey)
      THEN /\ ~api.handled.encrypted
           /\ \A k \in EnvValues : \A now \in Timestamps :
                ~IsSet(k) =>
                  GET(k, now, <<>>).response = api.handled.response
      ELSE /\ api.handled.encrypted
           /\ OnlyTheEnvelope(api.handled)
           /\ \A k \in EnvValues :
                IsSet(k) => SameButForTheSeal(k, SameRunUnder(k))

\* the page has rendered what the route sealed, and there is another key to
\* compare with
C21_Witness ==
  /\ home.pc = "done"
  /\ api.byRoute
  /\ api.handled.encrypted
  /\ home.encryptionKey = api.encryptionKey
  /\ home.view.rendered
  /\ \E k \in EnvValues : IsSet(k) /\ k # api.encryptionKey

\* ------------------------------------------------------------------------
\* C22
\* ------------------------------------------------------------------------
\* the envelope of call i is opened with a key other than the one it was
\* sealed with
OpenedWithAnotherKey(i) == OpensCall(i) /\ dec.secretKey # calls[i].secretKey

SimpleFold(c) ==
  IF IsUpper(c) THEN c + 32
  ELSE IF c = FinalSigma THEN SmallSigma
  ELSE IF c = 181 THEN 956
  ELSE IF c = 383 THEN 115
  ELSE c

\* q occurs in s when the case of letters is disregarded
ContainsIgnoringCase(s, q) ==
  \E p \in 0..(Len(s) - Len(q)) :
    \A j \in 1..Len(q) : SimpleFold(s[p + j]) = SimpleFold(q[j])

\* the record is one the query asks for
AskedFor(record, q) ==
  \/ ContainsIgnoringCase(Field(record, StrTitle), q)
  \/ ContainsIgnoringCase(Field(record, StrType), q)
  \/ ContainsIgnoringCase(Field(record, StrSensitivity), q)

\* how many times the record is in the list
Count(list, record) == Cardinality({i \in 1..Len(list) : list[i] = record})

IsLatin1(s) == \A i \in 1..Len(s) : s[i] <= 255

\* the searched fields of the record are Latin-1 text
HasLatin1Fields(record) ==
  /\ IsLatin1(Field(record, StrTitle))
  /\ IsLatin1(Field(record, StrType))
  /\ IsLatin1(Field(record, StrSensitivity))

\* C23 as stated: the records displayed are exactly the records of
\* initialRecords one of whose title, type and sensitivity contains the
\* query case-insensitively; the empty query displays all; the count
\* displayed is at most initialRecords.length
C23_DisplayedAreTheMatches ==
  viewer.mounted =>
    /\ \A r \in RecordPool :
         Count(viewer.filteredAndSortedRecords, r)
           = IF AskedFor(r, viewer.searchQuery)
               THEN Count(viewer.initialRecords, r) ELSE 0
    /\ viewer.searchQuery = <<>>
         => Len(viewer.filteredAndSortedRecords) = Len(viewer.initialRecords)
    /\ viewer.showing <= viewer.total

\* C23 for Latin-1 text: when the query and the record's title, type and
\* sensitivity are Latin-1 text, the record is displayed (as many times as
\* it is in initialRecords) exactly if one of the three contains the query
\* case-insensitively; any record is displayed either as many times as it
\* is in initialRecords or not at all; the empty query displays all; the
\* counts shown are the lengths of the two lists, the first at most the
\* second
C23_DisplayedAreTheLatin1Matches ==
  viewer.mounted =>
    /\ \A r \in RecordPool :
         /\ (IsLatin1(viewer.searchQuery) /\ HasLatin1Fields(r))
              => Count(viewer.filteredAndSortedRecords, r)
                   = IF AskedFor(r, viewer.searchQuery)
                       THEN Count(viewer.initialRecords, r) ELSE 0
         /\ Count(viewer.filteredAndSortedRecords, r)
              \in {0, Count(viewer.initialRecords, r)}
    /\ \A i \in 1..Len(viewer.filteredAndSortedRecords) :
         viewer.filteredAndSortedRecords[i] \in RecordPool
    /\ viewer.searchQuery = <<>>
         => Len(viewer.filteredAndSortedRecords) = Len(viewer.initialRecords)
    /\ viewer.showing = Len(viewer.filteredAndSortedRecords)
    /\ viewer.total = Len(viewer.initialRecords)
    /\ viewer.showing <= viewer.total

\* a query in capitals has found a record written in small letters and has
\* left another record out
C23_Witness ==
  /\ viewer.mounted
  /\ viewer.searchQuery = <<80, 82, 73, 86>>
  /\ viewer.showing > 0
  /\ viewer.showing < viewer.total

\* ------------------------------------------------------------------------
\* C24
\* ------------------------------------------------------------------------
\* C24: decrypt does not succeed on a string of three fields whose nonce
\* field or tag field decodes to a number of bytes other than IV_LENGTH and
\* TAG_LENGTH, whatever the passphrase and the ciphertext
C24_LengthsEnforced ==
  (/\ dec.called
   /\ HasThreeFields(dec.encryptedText)
   /\ \/ Len(RawField(dec.encryptedText, 1)) # IV_LENGTH
      \/ Len(RawField(dec.encryptedText, 2)) # TAG_LENGTH)
    => ~dec.result.ok

\* ------------------------------------------------------------------------
\* C25
\* ------------------------------------------------------------------------
HasColon(s) == \E p \in 1..Len(s) : s[p] = Colon

\* the number of ':' in s
Colons(s) == Cardinality({p \in 1..Len(s) : s[p] = Colon})

\* the envelope of call i has two ':' and decrypt, given it with the
\* passphrase of the call, gets past the part-count check
DelimiterSafe(i) ==
  /\ Colons(calls[i].out) = 2
  /\ \A f \in 1..3 : ~HasColon(Fields(calls[i].out)[f])
  /\ (OpensCall(i) /\ dec.secretKey = calls[i].secretKey)
       => /\ ~IsFormatError(dec.result)
          /\ Occurs(dec.result.events, "createDecipheriv")

\* decrypt, given the envelope of call i with the passphrase of the call,
\* returns the plaintext of the call
ColonTextComesBack(i) ==
  (OpensCall(i) /\ dec.secretKey = calls[i].secretKey)
    => (dec.result.ok /\ dec.result.value = calls[i].text)

\* C25 as stated: for every plaintext with ':' in it the envelope has
\* exactly two ':', none inside a field, decrypt passes the part-count
\* check and returns the plaintext
C25_ColonTextRoundTrips ==
  \A i \in 1..Len(calls) :
    HasColon(calls[i].text) => (DelimiterSafe(i) /\ ColonTextComesBack(i))

\* C25 for well-formed plaintexts: for every plaintext with ':' in it the
\* envelope has exactly two ':', none inside a field, and decrypt passes the
\* part-count check; it returns the plaintext when the plaintext has no
\* unpaired surrogate
C25_WellFormedColonTextRoundTrips ==
  \A i \in 1..Len(calls) :
    HasColon(calls[i].text) =>
      /\ DelimiterSafe(i)
      /\ IsWellFormed(calls[i].text) => ColonTextComesBack(i)

\* a plaintext with two ':' in it came back from its envelope
C25_Witness ==
  \E i \in 1..Len(calls) :
    /\ Colons(calls[i].text) = 2
    /\ OpensCall(i)
    /\ dec.result.ok
    /\ dec.result.value = calls[i].text

\* ------------------------------------------------------------------------
\* C26
\* ------------------------------------------------------------------------
\* the parsed body of a response
BodyOf(response) == JSONparse(response.body).value

\* the body is the object { error: message } and nothing else
IsErrorBody(response, message) ==
  BodyOf(response) = JObject(<<JMember(StrError, JString(message))>>)

\* the text of the sample data is nowhere in the body
CarriesNoPlaintext(response) ==
  /\ \A n \in 1..Len(SampleRecords) :
       ~includes(response.body, Field(SampleRecords[n], StrTitle))
  /\ Get(BodyOf(response), StrRecords) = JUndefined
  /\ Get(BodyOf(response), StrTimestamp) = JUndefined

\* C26: a response of GET is (a) status 500 with { error: 'Encryption key
\* not configured' } when ENCRYPTION_KEY is unset or empty, and then encrypt
\* was not called, or (c) status 200 with the single member encryptedData,
\* the envelope that opens to the JSON text of sensitiveData; (b) had
\* encrypt thrown, the response would have been status 500 with { error:
\* 'Failed to encrypt data' }; a body never has both members, and never the
\* text of the records
C26_GetOutcomes ==
  api.byRoute =>
    /\ IF ~IsSet(api.encryptionKey)
         THEN /\ api.handled.response.status = 500
              /\ IsErrorBody(api.handled.response, StrKeyNotConfigured)
              /\ ~api.handled.encrypted
              /\ drawn = {}
         ELSE /\ api.handled.response.status = 200
              /\ OnlyTheEnvelope(api.handled)
              /\ HasThreeFields(api.handled.encryptedPayload)
              /\ drawn = {RawField(api.handled.encryptedPayload, 1)}
              /\ decrypt(api.handled.encryptedPayload, api.encryptionKey).value
                   = JSONstringify(api.handled.sensitiveData)
              /\ \A now \in Timestamps :
                   /\ GET(api.encryptionKey, now, <<>>).response.status = 500
                   /\ IsErrorBody(GET(api.encryptionKey, now, <<>>).response,
                                  StrFailedToEncrypt)
                   /\ ~GET(api.encryptionKey, now, <<>>).encrypted
    /\ (Get(BodyOf(api.handled.response), StrError) = JUndefined)
         # (Get(BodyOf(api.handled.response), StrEncryptedData) = JUndefined)
    /\ ~api.handled.response.rejected
    /\ CarriesNoPlaintext(api.handled.response)

\* the route has answered with the empty key in its environment
C26_Witness ==
  /\ api.byRoute
  /\ api.encryptionKey = <<>>
  /\ api.handled.response.status = 500

\* ------------------------------------------------------------------------
\* C27
\* ------------------------------------------------------------------------
\* C27: with ENCRYPTION_KEY unset or empty getDecryptedData throws
\* 'ENCRYPTION_KEY environment variable is not set' from outside the try
\* block, no fetch having been sent or answered and decrypt not having been
\* called; decrypt is called with a non-empty key only, and only on a
\* response that arrived with an ok status
C27_KeyCheckedFirst ==
  /\ (home.pc # "idle" /\ ~IsSet(home.encryptionKey)) =>
       /\ home.pc = "done"
       /\ ~home.outcome.ok
       /\ home.outcome.error = MsgKeyNotSet
       /\ ~home.outcome.logged
       /\ ~home.outcome.decrypted.called
       /\ ~api.answered
       /\ ~home.view.rendered
  /\ home.outcome.decrypted.called =>
       /\ home.encryptionKey # EnvUnset
       /\ Len(home.encryptionKey) > 0
       /\ api.answered
       /\ ~api.handled.response.rejected
       /\ ResponseOk(api.handled.response)

\* the page was asked for with the empty key in its environment
C27_Witness ==
  /\ home.pc = "done"
  /\ home.encryptionKey = <<>>
  /\ home.outcome.error = MsgKeyNotSet

\* ------------------------------------------------------------------------
\* C28
\* ------------------------------------------------------------------------
\* the displayed list holds the records the filter lets through, each as
\* many times as initialRecords has it, and nothing else
IsPermutationOfMatches ==
  /\ \A r \in RecordPool :
       Count(viewer.filteredAndSortedRecords, r)
         = IF Matches(r, viewer.searchQuery)
             THEN Count(viewer.initialRecords, r) ELSE 0
  /\ \A i \in 1..Len(viewer.filteredAndSortedRecords) :
       viewer.filteredAndSortedRecords[i] \in RecordPool

\* the time value of the date of the displayed record at place i
ShownTime(i) == getTime(Field(viewer.filteredAndSortedRecords[i], StrDate))

\* no displayed record that has a date stands before one with a later date
NewestFirst ==
  \A i, j \in 1..Len(viewer.filteredAndSortedRecords) :
    (i < j /\ ~ShownTime(i).nan /\ ~ShownTime(j).nan)
      => ShownTime(i).days >= ShownTime(j).days

\* the date of every displayed record is a date
AllShownDatesParse ==
  \A i \in 1..Len(viewer.filteredAndSortedRecords) : ~ShownTime(i).nan

\* a change of the query or of sortBy leaves the props and the total alone
PropsKept ==
  viewer.mounted =>
    /\ viewer'.mounted
    /\ viewer'.initialRecords = viewer.initialRecords
    /\ viewer'.total = viewer.total

\* C28 as stated: whatever sortBy and the query, the displayed list is a
\* permutation of the records the filter lets through, in the order newest
\* first when sortBy is 'date'; a change of sortBy or of the query changes
\* neither initialRecords nor the total shown
C28_SortingOnlyReorders ==
  /\ [](viewer.mounted =>
          /\ IsPermutationOfMatches
          /\ viewer.sortBy = "date" => NewestFirst)
  /\ [][PropsKept]_vars

\* C28 for dates that parse: as above, the order being newest first when
\* sortBy is 'date' and the date of every displayed record parses
C28_SortingOnlyReordersParsedDates ==
  /\ [](viewer.mounted =>
          /\ IsPermutationOfMatches
          /\ viewer.total = Len(viewer.initialRecords)
          /\ (viewer.sortBy = "date" /\ AllShownDatesParse) => NewestFirst)
  /\ [][PropsKept]_vars

\* two records are displayed in the order opposite to that of initialRecords,
\* the newer first
C28_Witness ==
  /\ viewer.mounted
  /\ viewer.sortBy = "date"
  /\ Len(viewer.initialRecords) = 2
  /\ Len(viewer.filteredAndSortedRecords) = 2
  /\ viewer.filteredAndSortedRecords[1] = viewer.initialRecords[2]
  /\ viewer.filteredAndSortedRecords[2] = viewer.initialRecords[1]
  /\ ShownTime(1).days > ShownTime(2).days
  /\ AllShownDatesParse

\* ------------------------------------------------------------------------
\* C29
\* ------------------------------------------------------------------------
\* TypingAnimation is on the screen with the text it was mounted with
TextAsMounted == typing.mounted /\ typing.changes = 0

\* the animation has run to its end
AnimationDone ==
  /\ typing.displayedText = typing.text
  /\ typing.isComplete
  /\ ~typing.interval.active

\* what is displayed is a prefix of the text, whole once isComplete is true
ShowsPrefix ==
  TextAsMounted =>
    /\ Len(typing.displayedText) <= Len(typing.text)
    /\ typing.displayedText = Prefix(typing.text, Len(typing.displayedText))
    /\ typing.isComplete => AnimationDone

\* a step shows one more character of the text or leaves the display alone
OneMoreCharacter ==
  (TextAsMounted /\ TextAsMounted') =>
    \/ typing'.displayedText = typing.displayedText
    \/ /\ Len(typing.displayedText) < Len(typing.text)
       /\ typing'.displayedText
            = Prefix(typing.text, Len(typing.displayedText) + 1)

\* with the interval cleared the state changes only through a new text or
\* an unmount
QuietOnceCleared ==
  (typing.mounted /\ ~typing.interval.active
     /\ typing'.mounted /\ typing'.text = typing.text)
    => typing' = typing

\* C29: mounted with a text that does not change, the ticks display the
\* prefixes of the text of length 1, 2, ..., n in this order, the whole text
\* is displayed in the end with isComplete true and the interval cleared,
\* after which nothing changes; an unmounted component has no interval
C29_TypingProgress ==
  /\ [](ShowsPrefix /\ (~typing.mounted => ~typing.interval.active))
  /\ [][OneMoreCharacter /\ QuietOnceCleared]_vars
  /\ (TextAsMounted ~> (AnimationDone \/ ~TextAsMounted))

\* a text of two characters has been typed out to its end
C29_Witness ==
  /\ TextAsMounted
  /\ Len(typing.text) = 2
  /\ AnimationDone
  /\ typing.interval.currentIndex = 2

\* ------------------------------------------------------------------------
\* C30
\* ------------------------------------------------------------------------
\* C30: in every reachable state of TypingAnimation, also after the text prop
\* has changed during or after an animation, isComplete is true only if
\* displayedText is the current text
C30_CompleteMeansWholeText ==
  (typing.mounted /\ typing.isComplete) => typing.displayedText = typing.text

====
